---- MODULE Spec2Model ----
(***************************************************************************)
(* A model of the twist-status-server repository: the transaction-status   *)
(* relay (/store-status, /pre-validate, status polling), the TWIST code    *)
(* store (code.json), the webhook log used as the account database, and    *)
(* the validation library (lib/payloadIndex.js, validation.js).            *)
(*                                                                         *)
(* The repository holds several generations of server.js.  They are named  *)
(* here by the lines they occupy:                                          *)
(*   generation B   src/server.js 122-586   (/pre-validate, random codes)  *)
(*   generation C   src/server.js 588-1099  (deterministic codes, code.json*)
(*                                           with a repo fallback)         *)
(*   generation D   src/unnamed/part_002    (B with a two-file log)        *)
(*   library        src/lib/payloadIndex.js (index, validateTransaction)   *)
(*                                                                         *)
(* JavaScript strings on which the code does character work are sequences  *)
(* of one-character strings; values the code only stores and compares      *)
(* (transaction_id, status, otpCode, messages) are TLA+ strings.  A field  *)
(* that is absent from a JSON body reads as the empty string, which is     *)
(* what `x || ''` makes of undefined.                                      *)
(***************************************************************************)
EXTENDS Integers, Sequences, FiniteSets, TLC

(***************************************************************************)
(* Bounds of the model.                                                    *)
(***************************************************************************)
\* Lines the webhook log may hold before /store-status is no longer taken.
MaxLog == 2
\* Milliseconds the wall clock may advance (timestamps 0..MaxClock).
MaxClock == 1

(***************************************************************************)
(* Program constants.                                                      *)
(***************************************************************************)
CardLength == 16
LibCardLength == 14
SuffixLength == 6
PhoneDigits == 10
CodeLength == 12
SliceFrom == 4
SliceTo == 8
IssuerPrefix == <<"7","1","4","6","1","5","6","7">>

(***************************************************************************)
(* String helpers (JavaScript String methods and the regexps of the code). *)
(***************************************************************************)
DigitChars == {"0","1","2","3","4","5","6","7","8","9"}

IsDigit(c) == c \in DigitChars

DigitVal(c) ==
  CASE c = "0" -> 0 [] c = "1" -> 1 [] c = "2" -> 2 [] c = "3" -> 3
    [] c = "4" -> 4 [] c = "5" -> 5 [] c = "6" -> 6 [] c = "7" -> 7
    [] c = "8" -> 8 [] OTHER -> 9

IsSpace(c) == c = " "

\* s.replace(/\D/g, '')  and  s.replace(/[^\d]/g, '')
DigitsOnly(s) == SelectSeq(s, IsDigit)

\* s.replace(/\s/g, '')
RemoveSpaces(s) == SelectSeq(s, LAMBDA c : ~IsSpace(c))

\* s.slice(-n)
SliceLast(s, n) == IF Len(s) <= n THEN s ELSE SubSeq(s, Len(s) - n + 1, Len(s))

\* s.slice(from, to) with 0 <= from <= to
Slice(s, from, to) ==
  LET hi == IF to < Len(s) THEN to ELSE Len(s)
  IN  IF from >= hi THEN <<>> ELSE SubSeq(s, from + 1, hi)

StartsWith(s, p) == Len(p) <= Len(s) /\ SubSeq(s, 1, Len(p)) = p

EndsWith(s, p) == Len(p) <= Len(s) /\ SubSeq(s, Len(s) - Len(p) + 1, Len(s)) = p

RECURSIVE TrimLeft(_)
TrimLeft(s) == IF s # <<>> /\ IsSpace(Head(s)) THEN TrimLeft(Tail(s)) ELSE s

RECURSIVE TrimRight(_)
TrimRight(s) ==
  IF s # <<>> /\ IsSpace(s[Len(s)]) THEN TrimRight(SubSeq(s, 1, Len(s) - 1)) ELSE s

\* s.trim()
Trim(s) == TrimRight(TrimLeft(s))

LowerChar(c) ==
  CASE c = "A" -> "a" [] c = "B" -> "b" [] c = "C" -> "c" [] c = "H" -> "h"
    [] c = "X" -> "x" [] c = "Y" -> "y" [] c = "Z" -> "z" [] OTHER -> c

UpperChar(c) ==
  CASE c = "a" -> "A" [] c = "b" -> "B" [] c = "c" -> "C" [] c = "h" -> "H"
    [] c = "x" -> "X" [] c = "y" -> "Y" [] c = "z" -> "Z" [] OTHER -> c

\* s.toLowerCase(), s.toUpperCase()
ToLowerCase(s) == [i \in 1..Len(s) |-> LowerChar(s[i])]

ToUpperCase(s) == [i \in 1..Len(s) |-> UpperChar(s[i])]

\* a || b on strings
OrElse(a, b) == IF a # <<>> THEN a ELSE b

\* obj.field for a field on which the code does character work
Get(obj, f) == IF f \in DOMAIN obj THEN obj[f] ELSE <<>>

\* obj.field for a field the code only stores and compares
GetTok(obj, f) == IF f \in DOMAIN obj THEN obj[f] ELSE ""

(***************************************************************************)
(* Number(s): a decimal numeral as [fin, neg, m, d] = (-1)^neg * m / 10^d, *)
(* NaN as fin = FALSE.                                                     *)
(***************************************************************************)
NaN == [fin |-> FALSE, neg |-> FALSE, m |-> 0, d |-> 0]

RECURSIVE DigitsValue(_)
DigitsValue(s) ==
  IF s = <<>> THEN 0 ELSE 10 * DigitsValue(SubSeq(s, 1, Len(s) - 1)) + DigitVal(s[Len(s)])

RECURSIVE Pow10(_)
Pow10(n) == IF n = 0 THEN 1 ELSE 10 * Pow10(n - 1)

\* Number(s) for s made of digits and dots only
UnsignedNumber(s) ==
  LET dots == SelectSeq(s, LAMBDA c : c = ".")
      digs == DigitsOnly(s)
      dot  == CHOOSE i \in 1..Len(s) : s[i] = "."
  IN  IF Len(dots) + Len(digs) # Len(s) \/ Len(dots) > 1 THEN NaN
      ELSE IF s = <<>> THEN [fin |-> TRUE, neg |-> FALSE, m |-> 0, d |-> 0]
      ELSE IF digs = <<>> THEN NaN
      ELSE IF dots = <<>> THEN [fin |-> TRUE, neg |-> FALSE, m |-> DigitsValue(s), d |-> 0]
      ELSE [fin |-> TRUE, neg |-> FALSE, m |-> DigitsValue(digs), d |-> Len(s) - dot]

\* Number(s) for a decimal numeral with an optional sign, blanks around it
ToNumber(raw) ==
  LET s == Trim(raw)
  IN  IF s = <<>> THEN [fin |-> TRUE, neg |-> FALSE, m |-> 0, d |-> 0]
      ELSE IF Head(s) \in {"-", "+"}
        THEN IF Tail(s) = <<>> THEN NaN
             ELSE [UnsignedNumber(Tail(s)) EXCEPT !.neg = (Head(s) = "-")]
      ELSE UnsignedNumber(s)

\* The value of a finite number scaled by 10^k, k >= its decimals
Scaled(x, k) == (IF x.neg THEN -1 ELSE 1) * x.m * Pow10(k - x.d)

\* a > b on finite numbers
NumGreater(a, b) ==
  LET k == IF a.d > b.d THEN a.d ELSE b.d
  IN  Scaled(a, k) > Scaled(b, k)

(***************************************************************************)
(* The TWIST code store (code.json).                                       *)
(***************************************************************************)
\* sha256(seed) as a hex key: collision-free, so the key names its seed.
Sha256Hex(seed) == [sha256 |-> seed]

\* `${loanId}|${expiration}`
Seed(loanId, expiration) == loanId \o <<"|">> \o expiration

EmptyMap == [k \in {} |-> <<>>]

MissingFile == [st |-> "missing", map |-> EmptyMap]
CorruptFile == [st |-> "corrupt", map |-> EmptyMap]
JsonFile(m) == [st |-> "ok", map |-> m]

\* existsSync + JSON.parse(readFileSync) with `data = {}` kept on a missing
\* or unparseable file
ReadCodeJson(file) == IF file.st = "ok" THEN file.map ELSE EmptyMap

\* A slice that takes the first four characters.
Middle4Of_First4(code12) ==
  IF code12 = <<>> \/ Len(code12) < CodeLength THEN <<>> ELSE Slice(code12, 0, SliceFrom)

\* middle4Of(code12)
Middle4Of(code12) ==
  IF code12 = <<>> \/ Len(code12) < CodeLength THEN <<>> ELSE Slice(code12, SliceFrom, SliceTo)

\* The values Math.random can give Array.from({length: 12}, ...).join('')
\* are all 12-digit strings; two of them stand for all.
RandomCodes ==
  { <<"1","1","1","1","2","2","2","2","3","3","3","3">>,
    <<"4","4","4","4","5","5","5","5","6","6","6","6">> }

(***************************************************************************)
(* The webhook log.  A line is `[<timestamp>] Incoming POST /store-status: *)
(* <JSON>`: ts holds the timestamp token (<<>> when the line has none),    *)
(* marker tells whether the line contains '/store-status:', json holds the *)
(* object JSON.parse gives for the text from the first '{' to the last '}' *)
(* (<<>> when there is none or it does not parse).  n is history: the       *)
(* ordinal of the append that wrote the line; no reader looks at it.       *)
(***************************************************************************)
\* A line written without the request body.
LogLine_NoBody(n, ts, body) == [n |-> n, ts |-> <<ts>>, marker |-> TRUE, json |-> <<>>]

LogLine(n, ts, body) == [n |-> n, ts |-> <<ts>>, marker |-> TRUE, json |-> <<body>>]

\* A scan that takes the newest parseable entry without comparing the loan.
LoanMatches_AnyLoan(line, last6) ==
  line.json # <<>>

\* String(obj.loan_id || '').endsWith(last6)
LoanMatches(line, last6) ==
  line.json # <<>> /\ EndsWith(Get(line.json[1], "loan_id"), last6)

\* The loop of readLatestPayloadByLoanIdEndsWith over raw.split('\n')
\* .filter(Boolean).reverse(): the first line, newest first, that has the
\* marker (when the generation asks for it), parses and matches.
RECURSIVE ScanReversed(_, _, _)
ScanReversed(lines, last6, needMarker) ==
  IF lines = <<>> THEN <<>>
  ELSE LET line == lines[Len(lines)]
       IN  IF (needMarker => line.marker) /\ LoanMatches(line, last6)
           THEN line.json
           ELSE ScanReversed(SubSeq(lines, 1, Len(lines) - 1), last6, needMarker)

\* Generation B: one log file, only lines with the '/store-status:' marker.
ReadLatestPayloadByLoanIdEndsWith(lines, last6) == ScanReversed(lines, last6, TRUE)

(***************************************************************************)
(* Values of the model: two accounts whose loan ids end in the same six    *)
(* digits, a third suffix nobody holds, and the requests made about them.  *)
(***************************************************************************)
Tx == {"t1", "t2"}

LoanA == <<"9","0","0","0","1","2","3","4","5","6">>
LoanB == <<"8","1","0","0","1","2","3","4","5","6">>
ExpIso == <<"2","0","2","5","-","0","3","-","0","1">>
ExpSlash == <<"0","3","/","2","5">>
ExpBare == <<"0","3","2","5">>
ExpOther == <<"0","4","/","2","6">>
EmailA == <<"a","@","x",".","c","a">>
PhoneA == <<"1","5","1","4","5","5","5","0","1","0","1">>
PhoneB == <<"5","1","4","5","5","5","0","1","9","9">>
PostalA == <<"H","2","X"," ","1","Y","4">>
CardA == <<"7","1","4","6","1","5","6","7","0","0","1","2","3","4","5","6">>
CardUnknown == <<"7","1","4","6","1","5","6","7","0","0","6","5","4","3","2","1">>
CardForeign == <<"1","2","3","4","5","6","7","8","0","0","1","2","3","4","5","6">>
CardShort == <<"7","1","4","6","1","5","6","7","1","2","3","4","5","6">>

StatusValues == {"approved", "denied"}

BodyA(status) ==
  [transaction_id |-> "t1", status |-> status, loan_id |-> LoanA,
   contract_expiration |-> ExpIso, email |-> EmailA, phone |-> PhoneA,
   postal_code |-> PostalA, available_credit |-> <<"5","0","0">>]

BodyB(status) ==
  [transaction_id |-> "t2", status |-> status, loan_id |-> LoanB,
   contract_expiration |-> ExpSlash, phone |-> PhoneB,
   postal_code |-> PostalA, available_credit |-> <<"5","0","0">>]

\* A body without transaction_id
BodyNoId == [status |-> "approved", loan_id |-> LoanA, contract_expiration |-> ExpIso]

BodyBare == [transaction_id |-> "t2", status |-> "denied"]

Bodies == {BodyA(s) : s \in StatusValues} \cup {BodyB("approved"), BodyNoId, BodyBare}

SubA ==
  [transaction_id |-> "t1", orderno |-> "o1", amount |-> <<"5","0","0">>,
   cardNumber |-> CardA, expiration |-> ExpSlash, twist |-> <<"2","2","2","2">>,
   email |-> <<" ","A","@","X",".","c","a">>,
   phone |-> <<"5","1","4","-","5","5","5","-","0","1","0","1">>,
   postal |-> <<"h","2","x","1","y","4">>, otpCode |-> "otp1"]

SubB ==
  [transaction_id |-> "t2", orderno |-> "o2", amount |-> <<"5","0","0">>,
   cardNumber |-> CardA, expiration |-> ExpSlash, twist |-> <<"2","2","2","2">>,
   email |-> <<"b","@","x",".","c","a">>, phone |-> PhoneB,
   postal |-> PostalA, otpCode |-> "otp2"]

SubForeign == [SubA EXCEPT !.cardNumber = CardForeign]

SubNoOtp == [SubA EXCEPT !.otpCode = ""]

SubUnknown == [SubA EXCEPT !.cardNumber = CardUnknown]

Submissions == {SubA, SubB, SubForeign, SubNoOtp, SubUnknown}

\* What the OTP collaborator may answer: {success: true}, {success: false},
\* a body that is not JSON, or no answer at all (fetch rejects).
OtpOutcomes == {"success", "reject", "garbled", "throw"}

(***************************************************************************)
(* State.                                                                  *)
(***************************************************************************)
VARIABLES
  index,        \* /mnt/data/payload_index.json (PAYLOAD_INDEX) as loadPayloadIndex reads it
  memC,         \* generation C's in-memory stores: statuses and latestByPhone
  norm,         \* the last application of an expiration normalizer: function, input, output
  gen,          \* the generation of the server deployed: "B", "C" or "D"
  statuses,     \* the in-memory map transaction_id -> status ("" when absent)
  logPrimary,   \* /mnt/data/webhook_logs.txt (LOG_PRIMARY), a sequence of lines
  logFallback,  \* <app dir>/webhook_logs.txt (logFilePath, LOG_FALLBACK)
  codeFile,     \* /mnt/data/code.json (twistCodePath, CODE_DB)
  codeRepo,     \* <app dir>/code.json (CODE_DB_REPO), read only
  now,          \* the wall clock, in milliseconds
  pv,           \* the /pre-validate request in flight, its position and locals
  ss,           \* the /store-status request in flight (awaiting the CRM)
  resp,         \* the response sent by the last step (NoResp when none was)
  calls,        \* the calls to collaborators issued by the last step
  otpReply,     \* the OTP collaborator's answer taken by the last step, or "none"
  lookup,       \* the loan-suffix lookup made by the last step, or NoLookup
  confirmed,    \* history: the (phone, otpCode) pairs a validation succeeded for
  issued        \* history: the codes getOrGenerateTwistCode has returned

vars == <<index, memC, norm, gen, statuses, logPrimary, logFallback, codeFile, codeRepo, now, pv, ss,
          resp, calls, otpReply, lookup, confirmed, issued>>

\* Generation C keeps whole payloads: transaction_id -> payload and
\* last 10 phone digits -> payload (<<>> when absent)
NoMemC == [statuses |-> [t \in Tx |-> <<>>], latestByPhone |-> <<>>]

\* loadPayloadIndex on a missing file: `{}` for each of the four maps
NoIndex == [byKey |-> <<>>, byCode |-> <<>>, byPhone |-> <<>>, byEmail |-> <<>>]

NoNorm == [fn |-> "none", raw |-> <<>>, out |-> {}]

NoLookup == [by |-> "none", last6 |-> <<>>, found |-> <<>>]

\* A response: route, HTTP status (0 when none is sent), ok/success, message,
\* loan_id, and as history the transaction, the request and the record it
\* was judged against; status and data are the properties of those names in
\* the body a poll answers with; crm is, as history, how the CRM call of the
\* request ended ("none" when the step followed no CRM call).
NoResp ==
  [route |-> "none", http |-> 0, ok |-> FALSE, message |-> "", loan_id |-> <<>>,
   tid |-> "", req |-> <<>>, rec |-> <<>>, status |-> <<>>, data |-> <<>>, crm |-> "none"]

Reply(route, http, ok, message, loanId, tid) ==
  [route |-> route, http |-> http, ok |-> ok, message |-> message, loan_id |-> loanId,
   tid |-> tid, req |-> <<>>, rec |-> <<>>, status |-> <<>>, data |-> <<>>, crm |-> "none"]

\* The reply to the submission `sub` judged against the record `found`
Answering(sub, found, reply) == [reply EXCEPT !.req = <<sub>>, !.rec = found]

Unanswered(route, tid) == Reply(route, 0, FALSE, "unhandled exception", <<>>, tid)

Idle == [pc |-> "idle"]

\* A lookup that never finds the key.
HasCode_Never(db, key) ==
  FALSE

\* if (data[hash]) / if (db[key])
HasCode(db, key) ==
  key \in DOMAIN db /\ db[key] # <<>>

\* An assignment into a fresh object instead of the one read from the file.
Stored_OnlyNew(db, key, code) ==
  key :> code

\* data[hash] = newCode / db[key] = code
Stored(db, key, code) ==
  (key :> code) @@ db

(***************************************************************************)
(* getOrGenerateTwistCode, generations B and D and lib/payloadIndex.js:    *)
(* the outcomes of one call on the store `file`.  Each outcome gives the   *)
(* value returned (<<>> for null), the store afterwards, and whether the   *)
(* call threw (fs.writeFileSync is not caught).  The new code comes from   *)
(* Math.random.                                                            *)
(***************************************************************************)
GetOrGenerateTwistCode(file, loanId, expiration) ==
  IF loanId = <<>> \/ expiration = <<>>
  THEN {[ret |-> <<>>, file |-> file, threw |-> FALSE]}
  ELSE LET hash == Sha256Hex(Seed(loanId, expiration))
           data == ReadCodeJson(file)
       IN  IF HasCode(data, hash)
           THEN {[ret |-> data[hash], file |-> file, threw |-> FALSE]}
           ELSE {[ret |-> newCode, file |-> JsonFile(Stored(data, hash, newCode)),
                  threw |-> FALSE] : newCode \in RandomCodes}
                \cup {[ret |-> <<>>, file |-> file, threw |-> TRUE]}

\* History: what a call returned and whether the store had the key before.
Issue(loanId, expiration, code, fresh) ==
  IF code = <<>> THEN {}
  ELSE {[loan |-> loanId, exp |-> expiration, code |-> code, fresh |-> fresh]}

(***************************************************************************)
(* POST /store-status, generation B.                                       *)
(***************************************************************************)
\* "Ensure a twistcode exists", then res.json({ success: true }); `crm` is
\* how the CRM call before it ended
StoreStatusEnd(body, crm) ==
  LET loan_id == Get(body, "loan_id")
      contract_expiration == Get(body, "contract_expiration")
      tid == GetTok(body, "transaction_id")
  IN  IF loan_id # <<>> /\ contract_expiration # <<>>
      THEN \E o \in GetOrGenerateTwistCode(codeFile, loan_id, contract_expiration) :
             /\ codeFile' = o.file
             /\ issued' = issued \cup Issue(loan_id, contract_expiration, o.ret,
                  ~HasCode(ReadCodeJson(codeFile), Sha256Hex(Seed(loan_id, contract_expiration))))
             /\ resp' = [IF o.threw THEN Unanswered("store-status", tid)
                         ELSE Reply("store-status", 200, TRUE, "", <<>>, tid)
                           EXCEPT !.crm = crm]
      ELSE /\ codeFile' = codeFile
           /\ issued' = issued
           /\ resp' = [Reply("store-status", 200, TRUE, "", <<>>, tid) EXCEPT !.crm = crm]

StoreStatusFinish(body) == StoreStatusEnd(body, "none")

\* A handler whose CRM call is outside any try: a rejection ends it.
CrmCaught_Never(crmOk) == crmOk

\* try { await fetch(...) } catch (err) { console.error(...) }: the handler
\* goes on whether the call was fulfilled or rejected
CrmCaught(crmOk) == TRUE

CrmOutcome(crmOk) == IF crmOk THEN "ok" ELSE "failed"

\* !apiKey || apiKey !== authorizedKey, with `auth` for: the x-api-key header
\* is the configured key.  KeyRejected_Never lets every request through.
KeyRejected_Never(auth) == FALSE

KeyRejected(auth) == ~auth

\* The handler up to its first await (the CRM fetch), or to its end when the
\* body has no email.  `auth`: the x-api-key header equals API_KEY;
\* `appended`: fs.appendFileSync does not throw.
StoreStatusHandler(auth, body, appended) ==
  LET tid == GetTok(body, "transaction_id")
      status == GetTok(body, "status")
  IN  /\ gen = "B"
      /\ UNCHANGED <<index, memC, norm, gen, logPrimary, codeRepo, now, pv, confirmed>>
      /\ otpReply' = "none"
      /\ lookup' = NoLookup
      /\ IF KeyRejected(auth)
         THEN /\ resp' = Reply("store-status", 401, FALSE, "Unauthorized", <<>>, "")
              /\ calls' = {}
              /\ UNCHANGED <<statuses, logFallback, codeFile, ss, issued>>
         ELSE IF tid = "" \/ status = ""
         THEN /\ resp' = Reply("store-status", 400, FALSE, "Missing transaction_id or status", <<>>, "")
              /\ calls' = {}
              /\ UNCHANGED <<statuses, logFallback, codeFile, ss, issued>>
         ELSE IF ~appended
         THEN /\ resp' = Unanswered("store-status", tid)
              /\ calls' = {}
              /\ UNCHANGED <<statuses, logFallback, codeFile, ss, issued>>
         ELSE /\ Len(logFallback) < MaxLog
              /\ logFallback' = Append(logFallback, LogLine(Len(logFallback) + 1, now, body))
              /\ statuses' = [statuses EXCEPT ![tid] = status]
              /\ IF Get(body, "email") # <<>>
                 THEN /\ ss' = [pc |-> "crm", body |-> body]
                      /\ calls' = {[to |-> "crm", phone |-> Get(body, "email"), code |-> ""]}
                      /\ resp' = NoResp
                      /\ UNCHANGED <<codeFile, issued>>
                 ELSE /\ ss' = ss
                      /\ calls' = {}
                      /\ StoreStatusFinish(body)

\* A /store-status request taken while no other one awaits the CRM
StoreStatus(auth, body, appended) ==
  /\ ss.pc = "idle"
  /\ StoreStatusHandler(auth, body, appended)

\* A /store-status request handled while another one awaits the CRM: between
\* `await fetch` and its continuation the event loop runs other handlers.
\* (A request that itself awaits the CRM would need a second slot; the ones
\* taken here run to their response in one turn.)
StoreStatusMeanwhile(auth, body, appended) ==
  /\ ss.pc = "crm"
  /\ Get(body, "email") = <<>>
  /\ StoreStatusHandler(auth, body, appended)

\* The CRM fetch settles; a rejection is caught and logged.
StoreStatusCrmReturn(crmOk) ==
  /\ ss.pc = "crm"
  /\ crmOk \in BOOLEAN
  /\ ss' = Idle
  /\ calls' = {}
  /\ IF CrmCaught(crmOk)
     THEN StoreStatusEnd(ss.body, CrmOutcome(crmOk))
     ELSE /\ resp' = [Unanswered("store-status", GetTok(ss.body, "transaction_id"))
                        EXCEPT !.crm = CrmOutcome(crmOk)]
          /\ UNCHANGED <<codeFile, issued>>
  /\ otpReply' = "none"
  /\ lookup' = NoLookup
  /\ UNCHANGED <<index, memC, norm, gen, statuses, logPrimary, logFallback, codeRepo, now, pv, confirmed>>

(***************************************************************************)
(* POST /pre-validate, generations B and D.                                *)
(***************************************************************************)
\* normE164CA(v): <<>> for null
NormE164CA(v) ==
  LET l10 == SliceLast(DigitsOnly(v), PhoneDigits)
  IN  IF Len(l10) = PhoneDigits THEN <<"+","1">> \o l10 ELSE <<>>

\* parseMMYY(mmYY): the string matches /^(\d{2})\/(\d{2})$/
ParseMMYY(s) ==
  IF Len(s) = 5 /\ s[3] = "/" /\ \A i \in {1, 2, 4, 5} : IsDigit(s[i]) THEN s ELSE <<>>

IsIsoDate(s) ==
  Len(s) = 10 /\ s[5] = "-" /\ s[8] = "-" /\ \A i \in {1, 2, 3, 4, 6, 7, 9, 10} : IsDigit(s[i])

\* normalizeMMYYFromStored(v): MM/YY, or <<>> for null
NormalizeMMYYFromStored(v) ==
  IF v = <<>> THEN <<>>
  ELSE IF ParseMMYY(v) # <<>> THEN v
  ELSE IF IsIsoDate(v) THEN <<v[6], v[7], "/", v[3], v[4]>>
  ELSE <<>>

MissingRequired(sub) ==
  \/ \E f \in {"transaction_id", "orderno", "otpCode"} : GetTok(sub, f) = ""
  \/ \E f \in {"amount", "cardNumber", "expiration", "twist", "email", "phone", "postal"} :
       Get(sub, f) = <<>>

CleanCard(sub) == DigitsOnly(Get(sub, "cardNumber"))

\* The message of the first card check that fails, "" when none does
CardChecks(sub) ==
  IF ~StartsWith(CleanCard(sub), IssuerPrefix) THEN "Card prefix invalid."
  ELSE IF Len(CleanCard(sub)) # CardLength THEN "Card length invalid."
  ELSE ""

\* An email check that trims both sides but compares them case-sensitively.
EmailMismatch_CaseSensitive(sub, latest) ==
  LET acEmail == Trim(OrElse(Get(latest, "email"), Get(latest, "customer_email")))
  IN  acEmail # <<>> /\ Trim(Get(sub, "email")) # acEmail

EmailMismatch(sub, latest) ==
  LET acEmail == ToLowerCase(Trim(OrElse(Get(latest, "email"), Get(latest, "customer_email"))))
  IN  acEmail # <<>> /\ ToLowerCase(Trim(Get(sub, "email"))) # acEmail

PhoneMismatch(sub, latest) ==
  LET acPhone == DigitsOnly(OrElse(Get(latest, "phone"), Get(latest, "customer_phone")))
      inPhoneDigits == DigitsOnly(Get(sub, "phone"))
  IN  acPhone # <<>> /\ SliceLast(inPhoneDigits, PhoneDigits) # SliceLast(acPhone, PhoneDigits)

PostalMismatch(sub, latest) ==
  LET acPostal == ToUpperCase(Trim(OrElse(Get(latest, "postal_code"), Get(latest, "postal"))))
      inPostal == RemoveSpaces(ToUpperCase(Trim(Get(sub, "postal"))))
  IN  acPostal # <<>> /\ inPostal # RemoveSpaces(acPostal)

\* Number(latest.available_credit || 0)
AcAvail(latest) == ToNumber(Get(latest, "available_credit"))

\* Number(String(amount).replace(/[^\d.]/g, ''))
Amt(sub) == ToNumber(SelectSeq(Get(sub, "amount"), LAMBDA c : IsDigit(c) \/ c = "."))

AmountExceeds(sub, latest) ==
  AcAvail(latest).fin /\ Amt(sub).fin /\ NumGreater(Amt(sub), AcAvail(latest))

ExpirationFormatInvalid(sub) == ParseMMYY(Get(sub, "expiration")) = <<>>

ExpirationMismatch(sub, latest) ==
  LET storedMMYY == NormalizeMMYYFromStored(Get(latest, "contract_expiration"))
  IN  storedMMYY = <<>> \/ storedMMYY # ParseMMYY(Get(sub, "expiration"))

\* twistMap[hashKey] with hashKey = sha256(`${loanId}|${acExpiryRaw}`)
StoredCode(file, latest) ==
  LET twistMap == ReadCodeJson(file)
      hashKey == Sha256Hex(Seed(Get(latest, "loan_id"), Get(latest, "contract_expiration")))
  IN  IF hashKey \in DOMAIN twistMap THEN twistMap[hashKey] ELSE <<>>

TwistIncorrect(sub, latest, file) ==
  LET mid4 == Middle4Of(StoredCode(file, latest))
  IN  mid4 = <<>> \/ Get(sub, "twist") # mid4

\* The checks made between the log lookup and the OTP call, in the order of
\* the code: the message of the first that fails, "" when all pass.
\* A handler that goes to the OTP fetch as soon as a record is found.
PreValidateChecks_LookupOnly(sub, found, file) ==
  IF found = <<>> THEN "No matching loan found." ELSE ""

PreValidateChecks(sub, found, file) ==
  IF found = <<>> THEN "No matching loan found."
  ELSE LET latest == found[1]
       IN  IF EmailMismatch(sub, latest) THEN "Email does not match account."
           ELSE IF PhoneMismatch(sub, latest) THEN "Phone does not match account."
           ELSE IF PostalMismatch(sub, latest) THEN "Postal code does not match account."
           ELSE IF AmountExceeds(sub, latest) THEN "Amount exceeds available credit."
           ELSE IF ExpirationFormatInvalid(sub) THEN "Expiration format invalid."
           ELSE IF ExpirationMismatch(sub, latest) THEN "Expiration does not match contract."
           ELSE IF TwistIncorrect(sub, latest, file) THEN "TWIST code incorrect."
           ELSE IF NormE164CA(Get(sub, "phone")) = <<>> THEN "Phone format invalid."
           ELSE ""

Deny(sub, found, message) ==
  Answering(sub, found,
            Reply("pre-validate", 200, FALSE, message, <<>>, GetTok(sub, "transaction_id")))

\* The handler up to `await readLatestPayloadByLoanIdEndsWith(last6)`; the
\* step is taken at the instant the log file is read.
PreValidate(sub) ==
  /\ pv.pc = "idle"
  /\ calls' = {}
  /\ otpReply' = "none"
  /\ UNCHANGED <<index, memC, norm, gen, statuses, logPrimary, logFallback, codeFile, codeRepo, now, ss, confirmed, issued>>
  /\ IF MissingRequired(sub)
     THEN /\ resp' = Reply("pre-validate", 400, FALSE, "Missing required fields.", <<>>, "")
          /\ pv' = pv
          /\ lookup' = NoLookup
     ELSE IF CardChecks(sub) # ""
     THEN /\ resp' = Deny(sub, <<>>, CardChecks(sub))
          /\ pv' = pv
          /\ lookup' = NoLookup
     ELSE LET last6 == SliceLast(CleanCard(sub), SuffixLength)
              latest == ReadLatestPayloadByLoanIdEndsWith(logFallback, last6)
          IN  /\ resp' = NoResp
              /\ pv' = [pc |-> "lookup", sub |-> sub, latest |-> latest]
              /\ lookup' = [by |-> "server", last6 |-> last6, found |-> latest]

\* From the lookup's result to the OTP fetch: the checks, synchronously.
PreValidateResume ==
  /\ pv.pc = "lookup"
  /\ otpReply' = "none"
  /\ lookup' = NoLookup
  /\ UNCHANGED <<index, memC, norm, gen, statuses, logPrimary, logFallback, codeFile, codeRepo, now, ss, confirmed, issued>>
  /\ LET message == PreValidateChecks(pv.sub, pv.latest, codeFile)
     IN  IF message # ""
         THEN /\ resp' = Deny(pv.sub, pv.latest, message)
              /\ calls' = {}
              /\ pv' = Idle
         ELSE /\ resp' = NoResp
              /\ calls' = {[to |-> "otp", phone |-> NormE164CA(Get(pv.sub, "phone")),
                            code |-> GetTok(pv.sub, "otpCode")]}
              /\ pv' = [pv EXCEPT !.pc = "otp"]

\* A test that takes every answer the collaborator gave for a confirmation.
OtpAccepted_AnyAnswer(outcome) ==
  outcome # "throw"

\* otpData && otpData.success; an answer that is not JSON reads as null
OtpAccepted(outcome) ==
  outcome = "success"

\* A handler that marks the transaction before it looks at the answer.
StatusesAfterOtp_Always(accepted, tid) ==
  [statuses EXCEPT ![tid] = "pending"]

\* statuses[transaction_id] = 'pending' comes after the return on a refusal
StatusesAfterOtp(accepted, tid) ==
  IF accepted THEN [statuses EXCEPT ![tid] = "pending"] ELSE statuses

\* The OTP fetch settles.
PreValidateOtpReturn(outcome) ==
  LET tid == GetTok(pv.sub, "transaction_id")
  IN  /\ pv.pc = "otp"
      /\ pv' = Idle
      /\ calls' = {}
      /\ otpReply' = outcome
      /\ lookup' = NoLookup
      /\ UNCHANGED <<index, memC, norm, gen, logPrimary, logFallback, codeFile, codeRepo, now, ss, issued>>
      /\ IF outcome = "throw"
         THEN /\ resp' = Reply("pre-validate", 500, FALSE, "Server error", <<>>, tid)
              /\ UNCHANGED <<statuses, confirmed>>
         ELSE IF ~OtpAccepted(outcome)
         THEN /\ resp' = Deny(pv.sub, pv.latest, "OTP invalid or expired.")
              /\ statuses' = StatusesAfterOtp(FALSE, tid)
              /\ UNCHANGED confirmed
         ELSE /\ statuses' = StatusesAfterOtp(TRUE, tid)
              /\ resp' = Answering(pv.sub, pv.latest,
                                   Reply("pre-validate", 200, TRUE, "Validated",
                                         Get(pv.latest[1], "loan_id"), tid))
              /\ confirmed' = confirmed \cup
                   {<<NormE164CA(Get(pv.sub, "phone")), GetTok(pv.sub, "otpCode")>>}

(***************************************************************************)
(* The server, generation B: a fresh deployment taking requests.           *)
(***************************************************************************)
Init ==
  /\ statuses = [t \in Tx |-> ""]
  /\ logPrimary = <<>>
  /\ logFallback = <<>>
  /\ index = NoIndex
  /\ norm = NoNorm
  /\ memC = NoMemC
  /\ gen = "B"
  /\ codeFile = MissingFile
  /\ codeRepo = MissingFile
  /\ otpReply = "none"
  /\ lookup = NoLookup
  /\ issued = {}
  /\ now = 0
  /\ pv = Idle
  /\ ss = Idle
  /\ resp = NoResp
  /\ calls = {}
  /\ confirmed = {}

\* Generation B reads no timestamp, so the clock stands still here; it moves
\* in SpecLookup, where the readers of the two-file log compare timestamps.
Next ==
  \/ \E auth \in BOOLEAN, body \in Bodies, appended \in BOOLEAN : StoreStatus(auth, body, appended)
  \/ \E crmOk \in BOOLEAN : StoreStatusCrmReturn(crmOk)
  \/ \E sub \in Submissions : PreValidate(sub)
  \/ PreValidateResume
  \/ \E outcome \in OtpOutcomes : PreValidateOtpReturn(outcome)

Spec == Init /\ [][Next]_vars

(***************************************************************************)
(* The code store of generation C: loadCodeDb, saveCodeDb,                 *)
(* generate12DigitCode and getOrGenerateTwistCode.                         *)
(***************************************************************************)
\* JSON.stringify(db) with its `last` pointer
JsonFileWithLast(m, last) == [st |-> "ok", map |-> m, last |-> last]

\* loadCodeDb(): CODE_DB, or CODE_DB_REPO when CODE_DB cannot be read; {} when
\* neither can be read or the text does not parse.
LoadCodeDb(file, repo) ==
  LET raw == IF file.st # "missing" THEN file ELSE repo
  IN  IF raw.st = "ok" THEN raw.map ELSE EmptyMap

\* crypto.createHash('sha256').update(seed).digest(): the first 12 bytes of
\* the digest of the seeds the model uses.
Sha256Digest(seed) ==
  CASE seed = Seed(LoanA, ExpSlash) -> <<84, 19, 207, 64, 164, 32, 245, 65, 198, 247, 83, 98>>
    [] seed = Seed(LoanA, ExpIso) -> <<188, 56, 61, 222, 250, 154, 196, 127, 52, 64, 117, 235>>
    [] seed = Seed(LoanB, ExpSlash) -> <<173, 75, 210, 30, 19, 37, 219, 115, 213, 202, 178, 198>>
    [] seed = Seed(LoanB, ExpIso) -> <<91, 54, 205, 53, 191, 67, 249, 2, 217, 229, 167, 119>>
    [] OTHER -> <<>>

\* (n).toString() for 0 <= n <= 9
DigitChar(n) == CHOOSE c \in DigitChars : DigitVal(c) = n

RECURSIVE PadZeros(_)
PadZeros(out) == IF Len(out) < CodeLength THEN PadZeros(Append(out, "0")) ELSE out

\* generate12DigitCode(loan_id, contract_expiration)
Generate12DigitCode(loan_id, contract_expiration) ==
  LET hash == Sha256Digest(Seed(Trim(loan_id), Trim(contract_expiration)))
      n == IF Len(hash) < CodeLength THEN Len(hash) ELSE CodeLength
  IN  PadZeros([i \in 1..n |-> DigitChar(hash[i] % 10)])

\* getOrGenerateTwistCode of generation C: the outcomes of one call at time t.
\* saveCodeDb swallows a failed write, so the call returns either way.
GetOrGenerateTwistCodeC(file, repo, loan_id, contract_expiration, t) ==
  IF loan_id = <<>> \/ contract_expiration = <<>>
  THEN {[ret |-> <<>>, file |-> file, threw |-> FALSE]}
  ELSE LET key == Seed(Trim(loan_id), Trim(contract_expiration))
           db == LoadCodeDb(file, repo)
           code == IF HasCode(db, key) THEN db[key]
                   ELSE Generate12DigitCode(loan_id, contract_expiration)
           saved == JsonFileWithLast(IF HasCode(db, key) THEN db ELSE Stored(db, key, code),
                                     [key |-> key, code |-> code, t |-> t])
       IN  {[ret |-> code, file |-> saved, threw |-> FALSE],
            [ret |-> code, file |-> file, threw |-> FALSE]}

(***************************************************************************)
(* The code store on its own: calls of getOrGenerateTwistCode (made by     *)
(* /store-status, /get-code and upsertIndexFromPayload; the library's      *)
(* function is generation B's) on a store file found in any condition.     *)
(***************************************************************************)
CodeLoans == {LoanA, LoanB}
CodeExpirations == {ExpIso, ExpSlash, <<>>}

\* A code written by an earlier deployment
LegacyCode == <<"7","7","7","7","8","8","8","8","9","9","9","9">>

\* The key of the store for a pair, by generation
CodeKey(g, loanId, expiration) ==
  IF g = "C" THEN Seed(Trim(loanId), Trim(expiration))
  ELSE Sha256Hex(Seed(loanId, expiration))

LegacyFile(g) == JsonFile(CodeKey(g, LoanA, ExpIso) :> LegacyCode)

\* The store as the deployed generation reads it
CodeView ==
  IF gen = "C" THEN LoadCodeDb(codeFile, codeRepo) ELSE ReadCodeJson(codeFile)

CallGetOrGenerateTwistCode(loanId, expiration) ==
  /\ gen = "B"
  /\ \E o \in GetOrGenerateTwistCode(codeFile, loanId, expiration) :
       /\ codeFile' = o.file
       /\ issued' = issued \cup Issue(loanId, expiration, o.ret,
                      ~HasCode(CodeView, CodeKey(gen, loanId, expiration)))
  /\ UNCHANGED <<index, memC, norm, gen, statuses, logPrimary, logFallback, codeRepo, now, pv, ss,
                 resp, calls, otpReply, lookup, confirmed>>

CallGetOrGenerateTwistCodeC(loanId, expiration) ==
  /\ gen = "C"
  /\ \E o \in GetOrGenerateTwistCodeC(codeFile, codeRepo, loanId, expiration, now) :
       /\ codeFile' = o.file
       /\ issued' = issued \cup Issue(loanId, expiration, o.ret,
                      ~HasCode(CodeView, CodeKey(gen, loanId, expiration)))
  /\ UNCHANGED <<index, memC, norm, gen, statuses, logPrimary, logFallback, codeRepo, now, pv, ss,
                 resp, calls, otpReply, lookup, confirmed>>

InitCode ==
  /\ index = NoIndex
  /\ norm = NoNorm
  /\ memC = NoMemC
  /\ gen \in {"B", "C"}
  /\ codeFile \in {MissingFile, CorruptFile, JsonFile(EmptyMap), LegacyFile(gen)}
  /\ codeRepo \in IF gen = "C" THEN {MissingFile, LegacyFile(gen)} ELSE {MissingFile}
  /\ statuses = [t \in Tx |-> ""]
  /\ logPrimary = <<>>
  /\ logFallback = <<>>
  /\ now = 0
  /\ pv = Idle
  /\ ss = Idle
  /\ resp = NoResp
  /\ calls = {}
  /\ otpReply = "none"
  /\ lookup = NoLookup
  /\ confirmed = {}
  /\ issued = {}

NextCode ==
  \/ \E loanId \in CodeLoans, expiration \in CodeExpirations :
       CallGetOrGenerateTwistCode(loanId, expiration)
  \/ \E loanId \in CodeLoans, expiration \in CodeExpirations :
       CallGetOrGenerateTwistCodeC(loanId, expiration)

SpecCode == InitCode /\ [][NextCode]_vars

(***************************************************************************)
(* The two-file log: logWrite and readLogText of generation D, and         *)
(* readMergedLogText and findLatestPayloadByLoanIdEndsWith of the library. *)
(***************************************************************************)
\* mtimeMs of a log file that holds lines: the time of its last append
Mtime(lines) == lines[Len(lines)].ts[1]

\* readLogText(): the file modified last (the primary on a tie) among those
\* that hold anything
ReadLogText(primary, fallback) ==
  IF primary # <<>> /\ (fallback = <<>> \/ Mtime(primary) >= Mtime(fallback))
  THEN primary
  ELSE fallback

\* Generation D: "ANY line that contains a JSON object", newest line first.
ReadLatestPayloadByLoanIdEndsWithD(primary, fallback, last6) ==
  ScanReversed(ReadLogText(primary, fallback), last6, FALSE)

\* A comparator that puts the oldest timestamp first.
CompareLines_OldestFirst(a, b) ==
  IF a.ts # <<>> /\ b.ts # <<>> /\ a.ts # b.ts THEN a.ts[1] - b.ts[1]
  ELSE a.idx - b.idx

\* The comparator of withIndex.sort: newest first, file position on a tie or
\* when a line has no timestamp
CompareLines(a, b) ==
  IF a.ts # <<>> /\ b.ts # <<>> /\ a.ts # b.ts THEN b.ts[1] - a.ts[1]
  ELSE a.idx - b.idx

(***************************************************************************)
(* Array.prototype.sort as Node runs it on an array shorter than 64: the   *)
(* leading run is found (and reversed when strictly descending), then the  *)
(* remaining elements are placed by binary insertion.  With a consistent   *)
(* comparator this is a stable sort; the comparator of withIndex.sort is   *)
(* not consistent once a line has no timestamp, so the steps are followed. *)
(***************************************************************************)
Reverse(s) == [i \in 1..Len(s) |-> s[Len(s) + 1 - i]]

\* the last index of the run that starts the array and covers a[1..i]
RECURSIVE RunEnd(_, _, _)
RunEnd(a, i, descending) ==
  IF i = Len(a) THEN i
  ELSE LET order == CompareLines(a[i + 1], a[i])
       IN  IF (descending /\ order >= 0) \/ (~descending /\ order < 0) THEN i
           ELSE RunEnd(a, i + 1, descending)

CountAndMakeRun(a) ==
  IF Len(a) < 2 THEN [run |-> Len(a), arr |-> a]
  ELSE LET descending == CompareLines(a[2], a[1]) < 0
           e == RunEnd(a, 2, descending)
       IN  [run |-> e,
            arr |-> IF descending
                    THEN Reverse(SubSeq(a, 1, e)) \o SubSeq(a, e + 1, Len(a))
                    ELSE a]

\* where the pivot goes among a[left..right-1]
RECURSIVE BinaryPosition(_, _, _, _)
BinaryPosition(a, pivot, left, right) ==
  IF left >= right THEN left
  ELSE LET mid == left + ((right - left) \div 2)
       IN  IF CompareLines(pivot, a[mid]) < 0
           THEN BinaryPosition(a, pivot, left, mid)
           ELSE BinaryPosition(a, pivot, mid + 1, right)

RECURSIVE BinaryInsertionSort(_, _)
BinaryInsertionSort(a, start) ==
  IF start > Len(a) THEN a
  ELSE LET pivot == a[start]
           pos == BinaryPosition(a, pivot, 1, start)
       IN  BinaryInsertionSort(SubSeq(a, 1, pos - 1) \o <<pivot>> \o
                               SubSeq(a, pos, start - 1) \o
                               SubSeq(a, start + 1, Len(a)),
                               start + 1)

SortLines(withIndex) ==
  LET r == CountAndMakeRun(withIndex)
  IN  BinaryInsertionSort(r.arr, r.run + 1)

\* readMergedLogText(): the lines of both files, sorted
ReadMergedLogText(primary, fallback) ==
  LET lines == primary \o fallback
      withIndex == [i \in 1..Len(lines) |-> [line |-> lines[i], idx |-> i, ts |-> lines[i].ts]]
      sorted == SortLines(withIndex)
  IN  [i \in 1..Len(sorted) |-> sorted[i].line]

RECURSIVE ScanForward(_, _)
ScanForward(lines, last6) ==
  IF lines = <<>> THEN <<>>
  ELSE IF LoanMatches(Head(lines), last6) THEN Head(lines).json
  ELSE ScanForward(Tail(lines), last6)

\* findLatestPayloadByLoanIdEndsWith(last6)
FindLatestPayloadByLoanIdEndsWith(primary, fallback, last6) ==
  ScanForward(ReadMergedLogText(primary, fallback), last6)

\* The entries of the history: the lines of both files
LogEntries == {logPrimary[i] : i \in 1..Len(logPrimary)} \cup
              {logFallback[i] : i \in 1..Len(logFallback)}

NextOrdinal ==
  IF LogEntries = {} THEN 1
  ELSE 1 + (CHOOSE n \in {e.n : e \in LogEntries} : \A e \in LogEntries : e.n <= n)

\* POST /store-status, generation D: as generation B's, but the line goes
\* through logWrite, which appends to each file and swallows each failure.
StoreStatusD(auth, body, wrotePrimary, wroteFallback) ==
  LET tid == GetTok(body, "transaction_id")
      status == GetTok(body, "status")
      line == LogLine(NextOrdinal, now, body)
  IN  /\ gen = "D"
      /\ ss.pc = "idle"
      /\ UNCHANGED <<index, memC, norm, gen, codeRepo, now, pv, confirmed>>
      /\ otpReply' = "none"
      /\ lookup' = NoLookup
      /\ IF KeyRejected(auth)
         THEN /\ resp' = Reply("store-status", 401, FALSE, "Unauthorized", <<>>, "")
              /\ calls' = {}
              /\ UNCHANGED <<statuses, logPrimary, logFallback, codeFile, ss, issued>>
         ELSE IF tid = "" \/ status = ""
         THEN /\ resp' = Reply("store-status", 400, FALSE, "Missing transaction_id or status", <<>>, "")
              /\ calls' = {}
              /\ UNCHANGED <<statuses, logPrimary, logFallback, codeFile, ss, issued>>
         ELSE /\ NextOrdinal <= MaxLog
              /\ logPrimary' = IF wrotePrimary THEN Append(logPrimary, line) ELSE logPrimary
              /\ logFallback' = IF wroteFallback THEN Append(logFallback, line) ELSE logFallback
              /\ statuses' = [statuses EXCEPT ![tid] = status]
              /\ IF Get(body, "email") # <<>>
                 THEN /\ ss' = [pc |-> "crm", body |-> body]
                      /\ calls' = {[to |-> "crm", phone |-> Get(body, "email"), code |-> ""]}
                      /\ resp' = NoResp
                      /\ UNCHANGED <<codeFile, issued>>
                 ELSE /\ ss' = ss
                      /\ calls' = {}
                      /\ StoreStatusFinish(body)

\* The wall clock advances by a millisecond.
Tick ==
  /\ now < MaxClock
  /\ now' = now + 1
  /\ resp' = NoResp
  /\ calls' = {}
  /\ otpReply' = "none"
  /\ lookup' = NoLookup
  /\ UNCHANGED <<index, memC, norm, gen, statuses, logPrimary, logFallback, codeFile, codeRepo, pv, ss,
                 confirmed, issued>>

\* One loan-suffix lookup, by the library (called by validateTransaction) ...
LookupLib(last6) ==
  /\ lookup' = [by |-> "lib", last6 |-> last6,
                found |-> FindLatestPayloadByLoanIdEndsWith(logPrimary, logFallback, last6)]
  /\ resp' = NoResp
  /\ calls' = {}
  /\ otpReply' = "none"
  /\ UNCHANGED <<index, memC, norm, gen, statuses, logPrimary, logFallback, codeFile, codeRepo, now, pv, ss,
                 confirmed, issued>>

\* ... and by the server (called by /pre-validate and /code/middle4-by-phone)
LookupServer(last6) ==
  /\ lookup' = [by |-> "server", last6 |-> last6,
                found |-> IF gen = "D"
                          THEN ReadLatestPayloadByLoanIdEndsWithD(logPrimary, logFallback, last6)
                          ELSE ReadLatestPayloadByLoanIdEndsWith(logFallback, last6)]
  /\ resp' = NoResp
  /\ calls' = {}
  /\ otpReply' = "none"
  /\ UNCHANGED <<index, memC, norm, gen, statuses, logPrimary, logFallback, codeFile, codeRepo, now, pv, ss,
                 confirmed, issued>>

LoanC == <<"9","0","0","0","6","5","4","3","2","1">>

BodyL(tid, loanId) == [transaction_id |-> tid, status |-> "approved", loan_id |-> loanId]

BodyMail == [transaction_id |-> "t2", status |-> "denied", loan_id |-> LoanC, email |-> EmailA]

LookupBodies == {BodyL("t1", LoanA), BodyL("t2", LoanB), BodyMail}

Suffixes == {SliceLast(LoanA, SuffixLength), SliceLast(LoanC, SuffixLength)}

InitLookup ==
  /\ index = NoIndex
  /\ norm = NoNorm
  /\ memC = NoMemC
  /\ gen \in {"B", "D"}
  /\ codeFile = MissingFile
  /\ codeRepo = MissingFile
  /\ statuses = [t \in Tx |-> ""]
  /\ logPrimary = <<>>
  /\ logFallback = <<>>
  /\ now = 0
  /\ pv = Idle
  /\ ss = Idle
  /\ resp = NoResp
  /\ calls = {}
  /\ otpReply = "none"
  /\ lookup = NoLookup
  /\ confirmed = {}
  /\ issued = {}

NextLookup ==
  \/ \E auth \in BOOLEAN, body \in LookupBodies, appended \in BOOLEAN :
       StoreStatus(auth, body, appended)
  \/ \E auth \in BOOLEAN, body \in LookupBodies, wrotePrimary \in BOOLEAN, wroteFallback \in BOOLEAN :
       StoreStatusD(auth, body, wrotePrimary, wroteFallback)
  \/ \E crmOk \in BOOLEAN : StoreStatusCrmReturn(crmOk)
  \/ Tick
  \/ \E last6 \in Suffixes : LookupLib(last6)
  \/ \E last6 \in Suffixes : LookupServer(last6)

SpecLookup == InitLookup /\ [][NextLookup]_vars

(***************************************************************************)
(* Logs that hold lines no handler wrote.  A handler cut off in the middle *)
(* of its append leaves its timestamp and marker without a whole object;   *)
(* any other text in the file has neither timestamp, marker nor object.    *)
(* The scans are applied to every short log of such lines and entries, the *)
(* entries in the order of their appends.                                  *)
(***************************************************************************)
MaxScan == 3

JunkStamped(t) == [n |-> 0, ts |-> <<t>>, marker |-> TRUE, json |-> <<>>]

JunkBare == [n |-> 0, ts |-> <<>>, marker |-> FALSE, json |-> <<>>]

ScanPool == {LogLine(1, 0, BodyL("t1", LoanA)), LogLine(2, MaxClock, BodyL("t2", LoanB)),
             JunkBare} \cup {JunkStamped(t) : t \in 0..MaxClock}

Chronological(lines) ==
  \A i \in 1..Len(lines), j \in 1..Len(lines) :
    i < j =>
      /\ (lines[i].json # <<>> /\ lines[j].json # <<>>) => lines[i].n < lines[j].n
      /\ (lines[i].ts # <<>> /\ lines[j].ts # <<>>) => lines[i].ts[1] <= lines[j].ts[1]

ScanLogs == {lines \in UNION {[1..k -> ScanPool] : k \in 0..MaxScan} : Chronological(lines)}

InitScan ==
  /\ index = NoIndex
  /\ norm = NoNorm
  /\ memC = NoMemC
  /\ gen \in {"B", "D"}
  /\ codeFile = MissingFile
  /\ codeRepo = MissingFile
  /\ statuses = [t \in Tx |-> ""]
  /\ logPrimary = <<>>
  /\ logFallback \in ScanLogs
  /\ now = MaxClock
  /\ pv = Idle
  /\ ss = Idle
  /\ resp = NoResp
  /\ calls = {}
  /\ otpReply = "none"
  /\ lookup = NoLookup
  /\ confirmed = {}
  /\ issued = {}

NextScan ==
  \/ \E last6 \in Suffixes : LookupLib(last6)
  \/ \E last6 \in Suffixes : LookupServer(last6)

SpecScan == InitScan /\ [][NextScan]_vars

(***************************************************************************)
(* validateTransaction of the library (validation.js).                     *)
(***************************************************************************)
IsFourDigits(s) == Len(s) = 4 /\ \A i \in 1..4 : IsDigit(s[i])

\* toMMYY(raw): MMYY, or <<>> for null
ToMMYY(raw) ==
  LET s == Trim(raw)
  IN  IF IsFourDigits(s) THEN s
      ELSE IF ParseMMYY(s) # <<>> THEN <<s[1], s[2], s[4], s[5]>>
      ELSE IF IsIsoDate(s) THEN <<s[6], s[7], s[3], s[4]>>
      ELSE <<>>

\* A list of variants that holds the trimmed string alone.
ExpVariants_RawOnly(expirationRaw) ==
  IF Trim(expirationRaw) = <<>> THEN <<>> ELSE <<Trim(expirationRaw)>>

\* expVariants, in the order the Set yields them
ExpVariants(expirationRaw) ==
  LET s == Trim(expirationRaw)
  IN  IF s = <<>> THEN <<>>
      ELSE IF ParseMMYY(s) # <<>> THEN <<s, <<s[1], s[2], s[4], s[5]>> >>
      ELSE IF IsFourDigits(s) THEN <<s, <<s[1], s[2], "/", s[3], s[4]>> >>
      ELSE IF IsIsoDate(s) THEN <<s, <<s[6], s[7], s[3], s[4]>>, <<s[6], s[7], "/", s[3], s[4]>> >>
      ELSE <<s>>

RECURSIVE FirstCodeSlice(_, _, _)
FirstCodeSlice(map, loanId, variants) ==
  IF variants = <<>> THEN <<>>
  ELSE LET hash == Sha256Hex(Seed(loanId, Head(variants)))
       IN  IF HasCode(map, hash) /\ Len(map[hash]) >= CodeLength
           THEN Slice(map[hash], SliceFrom, SliceTo)
           ELSE FirstCodeSlice(map, loanId, Tail(variants))

\* getMiddle4FromCodeJson(loanId, expirationRaw): <<>> for null
GetMiddle4FromCodeJson(file, loanId, expirationRaw) ==
  IF loanId = <<>> \/ expirationRaw = <<>> \/ file.st # "ok" THEN <<>>
  ELSE FirstCodeSlice(file.map, loanId, ExpVariants(expirationRaw))

LibCardInvalid(payload) == Len(DigitsOnly(Get(payload, "cardNumber"))) # LibCardLength

LibExpirationMismatch(payload, latest) ==
  LET formExpMMYY == ToMMYY(Get(payload, "expiration"))
      storedMMYY == ToMMYY(Get(latest, "contract_expiration"))
  IN  formExpMMYY = <<>> \/ storedMMYY = <<>> \/ formExpMMYY # storedMMYY

LibTwistMismatch(payload, latest, file) ==
  LET mid4 == GetMiddle4FromCodeJson(file, Get(latest, "loan_id"), Get(latest, "contract_expiration"))
  IN  mid4 = <<>> \/ Get(payload, "twist") # mid4

LibPostalMismatch(payload, latest) ==
  LET acPostal == RemoveSpaces(ToUpperCase(Trim(OrElse(Get(latest, "postal_code"), Get(latest, "postal")))))
      inPostal == RemoveSpaces(ToUpperCase(Trim(Get(payload, "postal"))))
  IN  acPostal # <<>> /\ inPostal # acPostal

LibAmountExceeds(payload, latest) ==
  \/ ~Amt(payload).fin
  \/ AcAvail(latest).fin /\ NumGreater(Amt(payload), AcAvail(latest))

\* The checks of validateTransaction after the lookup, in the order of the
\* code: the message returned.
LibChecks(payload, found, file) ==
  IF found = <<>> THEN "Card number invalid."
  ELSE LET latest == found[1]
       IN  IF LibExpirationMismatch(payload, latest) THEN "Expiration mismatch."
           ELSE IF LibTwistMismatch(payload, latest, file) THEN "TWIST code mismatch."
           ELSE IF LibPostalMismatch(payload, latest) THEN "Postal code mismatch."
           ELSE IF LibAmountExceeds(payload, latest) THEN "Amount exceeds available credit."
           ELSE "Validated"

\* validateTransaction(payload): synchronous from start to end
ValidateTransaction(payload) ==
  LET tid == GetTok(payload, "transaction_id")
      last6 == SliceLast(DigitsOnly(Get(payload, "cardNumber")), SuffixLength)
      latest == FindLatestPayloadByLoanIdEndsWith(logPrimary, logFallback, last6)
      message == LibChecks(payload, latest, codeFile)
  IN  /\ calls' = {}
      /\ otpReply' = "none"
      /\ UNCHANGED <<index, memC, norm, gen, statuses, logPrimary, logFallback, codeFile, codeRepo, now, pv, ss,
                     confirmed, issued>>
      /\ IF LibCardInvalid(payload)
         THEN /\ lookup' = NoLookup
              /\ resp' = Answering(payload, <<>>,
                           Reply("validateTransaction", 0, FALSE, "Card number invalid.", <<>>, tid))
         ELSE /\ lookup' = [by |-> "lib", last6 |-> last6, found |-> latest]
              /\ resp' = Answering(payload, latest,
                           Reply("validateTransaction", 0, message = "Validated", message,
                                 IF message = "Validated" THEN Get(latest[1], "loan_id") ELSE <<>>,
                                 tid))

(***************************************************************************)
(* Validation: submissions that fail any combination of checks, judged by  *)
(* /pre-validate (16-digit cards) and by validateTransaction (14-digit     *)
(* cards) against the account /store-status recorded.                      *)
(***************************************************************************)
Sub(card, amount, twist, postal, expiration) ==
  [SubA EXCEPT !.cardNumber = card, !.amount = amount, !.twist = twist,
               !.postal = postal, !.expiration = expiration]

ValidateSubmissions ==
  {Sub(card, amount, twist, PostalA, ExpSlash) :
     card \in {CardA, CardShort},
     amount \in {<<"5","0","0">>, <<"9","0","0">>},
     twist \in {<<"2","2","2","2">>, <<"0","0","0","0">>}}
  \cup {Sub(card, <<"5","0","0">>, <<"2","2","2","2">>, <<"J","4","K"," ","2","Z","9">>, ExpOther) :
          card \in {CardA, CardShort}}
  \cup {[Sub(card, <<"5","0","0">>, <<"2","2","2","2">>, PostalA, ExpSlash) EXCEPT !.phone = PhoneB] :
          card \in {CardA, CardShort}}
  \cup {Sub(CardA, <<"5","0","0">>, <<"2","2","2","2">>, PostalA, expiration) :
          expiration \in {ExpOther, <<"3">>}}
  \cup {SubB}

ValidateBodies == {BodyA("approved")}

NextValidate ==
  \/ \E auth \in BOOLEAN, body \in ValidateBodies, appended \in BOOLEAN :
       StoreStatus(auth, body, appended)
  \/ \E crmOk \in BOOLEAN : StoreStatusCrmReturn(crmOk)
  \/ \E sub \in ValidateSubmissions : PreValidate(sub)
  \/ PreValidateResume
  \/ \E outcome \in OtpOutcomes : PreValidateOtpReturn(outcome)
  \/ \E payload \in ValidateSubmissions : ValidateTransaction(payload)

SpecValidate == Init /\ [][NextValidate]_vars

(***************************************************************************)
(* The single checks: an account recorded in full and one recorded with    *)
(* its loan id alone, and submissions that differ from a matching one in   *)
(* the email, the amount or the writing of the expiration.                 *)
(***************************************************************************)
\* An account recorded with its loan id alone: no email, phone, postal code,
\* credit or expiration
BodyPlain == [transaction_id |-> "t2", status |-> "approved", loan_id |-> LoanB]

CheckBodies == {BodyA("approved"), BodyPlain}

CheckSubmissions ==
  {Sub(card, amount, <<"2","2","2","2">>, PostalA, ExpSlash) :
     card \in {CardA, CardShort},
     amount \in {<<"5","0","0">>, <<"9","0","0">>, <<"1",".","2",".","3">>, <<"-","9","0","0">>}}
  \cup {Sub(card, <<"5","0","0">>, <<"2","2","2","2">>, PostalA, ExpBare) :
          card \in {CardA, CardShort}}
  \cup {SubB}

NextChecks ==
  \/ \E auth \in BOOLEAN, body \in CheckBodies, appended \in BOOLEAN :
       StoreStatus(auth, body, appended)
  \/ \E crmOk \in BOOLEAN : StoreStatusCrmReturn(crmOk)
  \/ \E sub \in CheckSubmissions : PreValidate(sub)
  \/ PreValidateResume
  \/ \E outcome \in OtpOutcomes : PreValidateOtpReturn(outcome)
  \/ \E payload \in CheckSubmissions : ValidateTransaction(payload)

SpecChecks == Init /\ [][NextChecks]_vars

(***************************************************************************)
(* The code check when one account is recorded with its expiration written *)
(* two ways: each /store-status asks for the code of the pair it carries,  *)
(* so the store may hold a code under one encoding and the latest record   *)
(* carry the other.                                                        *)
(***************************************************************************)
BodySlash == [BodyA("approved") EXCEPT !.contract_expiration = ExpSlash]

VariantBodies == {BodyA("approved"), BodySlash}

VariantSubmissions ==
  {Sub(card, <<"5","0","0">>, twist, PostalA, ExpSlash) :
     card \in {CardA, CardShort},
     twist \in {<<"2","2","2","2">>, <<"5","5","5","5">>}}

NextVariants ==
  \/ \E auth \in BOOLEAN, body \in VariantBodies, appended \in BOOLEAN :
       StoreStatus(auth, body, appended)
  \/ \E crmOk \in BOOLEAN : StoreStatusCrmReturn(crmOk)
  \/ \E sub \in VariantSubmissions : PreValidate(sub)
  \/ PreValidateResume
  \/ \E outcome \in OtpOutcomes : PreValidateOtpReturn(outcome)
  \/ \E payload \in VariantSubmissions : ValidateTransaction(payload)

SpecVariants == Init /\ [][NextVariants]_vars

(***************************************************************************)
(* The expiration normalizers, each applied to written dates in the three  *)
(* formats, to those dates with a blank around them and to every short     *)
(* string over a digit, a slash and a dash.                                *)
(***************************************************************************)
MaxExpLen == 4

\* expCandidates(v) of generation D, as the set of the array it returns
ExpCandidates(v) ==
  LET s == Trim(v)
  IN  (IF s # <<>> THEN {s} ELSE {})
      \cup (IF ParseMMYY(s) # <<>>
            THEN {<<s[1], s[2], s[4], s[5]>>, <<s[1], s[2], "/", s[4], s[5]>>} ELSE {})
      \cup (IF IsFourDigits(s) THEN {s, <<s[1], s[2], "/", s[3], s[4]>>} ELSE {})
      \cup (IF IsIsoDate(s)
            THEN {<<s[6], s[7], s[3], s[4]>>, <<s[6], s[7], "/", s[3], s[4]>>, s} ELSE {})

ExpDates ==
  {ExpBare, ExpSlash, ExpIso, ExpOther, <<"0","4","2","6">>,
   <<"2","0","2","6","-","0","4","-","3","0">>, <<"2","0","2","5","-","0","3","-","1","5">>,
   <<"1","9","2","5","-","0","3","-","0","1">>}

ExpInputs ==
  ExpDates
  \cup {<<" ">> \o d : d \in ExpDates} \cup {d \o <<" ">> : d \in ExpDates}
  \cup UNION {[1..k -> {"3", "/", "-"}] : k \in 0..MaxExpLen}

Applied(fn, raw, out) ==
  /\ norm' = [fn |-> fn, raw |-> raw, out |-> out]
  /\ UNCHANGED <<index, memC, gen, statuses, logPrimary, logFallback, codeFile, codeRepo, now, pv, ss,
                 resp, calls, otpReply, lookup, confirmed, issued>>

ApplyToMMYY(raw) == Applied("toMMYY", raw, {ToMMYY(raw)})

ApplyNormalizeMMYYFromStored(raw) ==
  Applied("normalizeMMYYFromStored", raw, {NormalizeMMYYFromStored(raw)})

ApplyExpVariants(raw) ==
  Applied("expVariants", raw, {ExpVariants(raw)[i] : i \in 1..Len(ExpVariants(raw))})

ApplyExpCandidates(raw) == Applied("expCandidates", raw, ExpCandidates(raw))

NextNormalize ==
  \/ \E raw \in ExpInputs : ApplyToMMYY(raw)
  \/ \E raw \in ExpInputs : ApplyNormalizeMMYYFromStored(raw)
  \/ \E raw \in ExpInputs : ApplyExpVariants(raw)
  \/ \E raw \in ExpInputs : ApplyExpCandidates(raw)

SpecNormalize == Init /\ [][NextNormalize]_vars

(***************************************************************************)
(* The verification slice and the phone normalizer, applied to stored      *)
(* values and phones of every length up to a bound.                        *)
(***************************************************************************)
MaxCodeLen == 13
MaxPhoneLen == 12

CodeBases ==
  { <<"1","1","1","1","2","2","2","2","3","3","3","3","4","4","4","4">>,
    <<"4","4","4","4","5","5","5","5","6","6","6","6","7","7","7","7">>,
    <<"0","1","2","3","4","5","6","7","8","9","0","1","2","3","4","5">> }

CodeInputs == {SubSeq(base, 1, k) : base \in CodeBases, k \in 0..MaxCodeLen}

PhoneBases ==
  { <<"1","5","1","4","5","5","5","0","1","0","1","9","9","9","9","9">>,
    <<"5","1","4","-","5","5","5","-","0","1","0","1","2","3","4","5">>,
    <<"+","1"," ","5","1","4","5","5","5","0","1","9","9","0","0","0">> }

PhoneInputs == {SubSeq(base, 1, k) : base \in PhoneBases, k \in 0..MaxPhoneLen}

ApplyMiddle4Of(code12) == Applied("middle4Of", code12, {Middle4Of(code12)})

\* getMiddle4FromCodeJson over a store that holds `code` for the pair asked
ApplyGetMiddle4FromCodeJson(code) ==
  Applied("getMiddle4FromCodeJson", code,
          {GetMiddle4FromCodeJson(JsonFile(Sha256Hex(Seed(LoanA, ExpSlash)) :> code),
                                  LoanA, ExpSlash)})

ApplyNormE164CA(v) == Applied("normE164CA", v, {NormE164CA(v)})

NextFormat ==
  \/ \E code12 \in CodeInputs : ApplyMiddle4Of(code12)
  \/ \E code \in CodeInputs : ApplyGetMiddle4FromCodeJson(code)
  \/ \E v \in PhoneInputs : ApplyNormE164CA(v)

SpecFormat == Init /\ [][NextFormat]_vars

(***************************************************************************)
(* Status polling of generations B and D, and /store-status and            *)
(* /check-status of generation C, which keeps whole payloads in memory and *)
(* writes its log as JSON lines.                                           *)
(***************************************************************************)
\* statuses[transaction_id] || 'pending'
\* A poll that does not look at the map.
StatusOrPending_Unread(tid) == "pending"

StatusOrPending(tid) == IF statuses[tid] = "" THEN "pending" ELSE statuses[tid]

Polled(reply, status, data) ==
  /\ resp' = [reply EXCEPT !.status = status, !.data = data]
  /\ calls' = {}
  /\ otpReply' = "none"
  /\ lookup' = NoLookup
  /\ UNCHANGED <<index, memC, norm, gen, statuses, logPrimary, logFallback, codeFile, codeRepo, now,
                 pv, ss, confirmed, issued>>

\* POST /client-check-status
ClientCheckStatus(tid) ==
  /\ gen \in {"B", "D"}
  /\ IF tid = ""
     THEN Polled(Reply("client-check-status", 400, FALSE, "Missing transaction_id", <<>>, tid), <<>>, <<>>)
     ELSE Polled(Reply("client-check-status", 200, TRUE, "", <<>>, tid), <<StatusOrPending(tid)>>, <<>>)

\* GET /check-status behind the GET key
CheckStatus(auth, tid) ==
  /\ gen \in {"B", "D"}
  /\ IF ~auth
     THEN Polled(Reply("check-status", 401, FALSE, "Unauthorized", <<>>, tid), <<>>, <<>>)
     ELSE IF tid = ""
     THEN Polled(Reply("check-status", 400, FALSE, "Missing transaction_id", <<>>, tid), <<>>, <<>>)
     ELSE Polled(Reply("check-status", 200, TRUE, "", <<>>, tid), <<StatusOrPending(tid)>>, <<>>)

\* last10(v) of generation C
Last10C(v) == SliceLast(DigitsOnly(v), PhoneDigits)

\* POST /store-status of generation C up to `await appendWebhookLogLine`:
\* the payload is kept in memory and the code is got or generated.
StoreStatusC(auth, body) ==
  LET transaction_id == GetTok(body, "transaction_id")
      phoneLast10 == Last10C(OrElse(Get(body, "phone"),
                               OrElse(Get(body, "client_phone"), Get(body, "customer_phone"))))
      loan_id == Trim(Get(body, "loan_id"))
      contract_expiration == Trim(OrElse(Get(body, "contract_expiration"), Get(body, "expiration")))
      kept == [payload |-> body, t |-> now]
  IN  /\ gen = "C"
      /\ ss.pc = "idle"
      /\ calls' = {}
      /\ otpReply' = "none"
      /\ lookup' = NoLookup
      /\ UNCHANGED <<index, norm, gen, statuses, logPrimary, logFallback, codeRepo, now, pv,
                     confirmed>>
      /\ IF KeyRejected(auth)
         THEN /\ resp' = Reply("store-status", 401, FALSE, "Unauthorized", <<>>, "")
              /\ UNCHANGED <<memC, codeFile, ss, issued>>
         ELSE /\ Len(logPrimary) + Len(logFallback) < MaxLog
              /\ memC' = [statuses |->
                            IF transaction_id # ""
                            THEN [memC.statuses EXCEPT ![transaction_id] = <<kept>>]
                            ELSE memC.statuses,
                          latestByPhone |->
                            IF phoneLast10 # <<>>
                            THEN (phoneLast10 :> kept) @@ memC.latestByPhone
                            ELSE memC.latestByPhone]
              /\ \E o \in GetOrGenerateTwistCodeC(codeFile, codeRepo, loan_id,
                                                  contract_expiration, now) :
                   /\ codeFile' = o.file
                   /\ issued' = IF o.ret = <<>> THEN issued
                                ELSE issued \cup Issue(loan_id, contract_expiration, o.ret,
                                       ~HasCode(CodeView, CodeKey(gen, loan_id, contract_expiration)))
                   /\ ss' = [pc |-> "appendC", body |-> body,
                             line |-> [type |-> "store-status", transaction_id |-> transaction_id,
                                       phoneLast10 |-> phoneLast10, loan_id |-> loan_id,
                                       contract_expiration |-> contract_expiration,
                                       twistcode |-> o.ret, payload |-> body]]
              /\ resp' = NoResp

\* updateActiveCampaignFromPayload reaches a fetch: there is a field to
\* update and a contact to update it for (the CRM being configured)
CrmCalledC(payload) ==
  /\ Get(payload, "available_credit") # <<>> \/ Get(payload, "product_description") # <<>>
  /\ Get(payload, "email") # <<>>

\* appendWebhookLogLine settles: the line went to the primary file, else to
\* the repo file, else nowhere; then the CRM is called or the answer sent.
StoreStatusCAppend(wrotePrimary, wroteFallback) ==
  LET line == [n |-> NextOrdinal, ts |-> <<>>, marker |-> FALSE,
               json |-> <<[t |-> now] @@ ss.line>>]
  IN  /\ ss.pc = "appendC"
      /\ logPrimary' = IF wrotePrimary THEN Append(logPrimary, line) ELSE logPrimary
      /\ logFallback' = IF ~wrotePrimary /\ wroteFallback THEN Append(logFallback, line)
                        ELSE logFallback
      /\ otpReply' = "none"
      /\ lookup' = NoLookup
      /\ UNCHANGED <<index, memC, norm, gen, statuses, codeFile, codeRepo, now, pv, confirmed, issued>>
      /\ IF CrmCalledC(ss.body)
         THEN /\ ss' = [pc |-> "crmC", body |-> ss.body]
              /\ calls' = {[to |-> "crm", phone |-> Get(ss.body, "email"), code |-> ""]}
              /\ resp' = NoResp
         ELSE /\ ss' = Idle
              /\ calls' = {}
              /\ resp' = Reply("store-status", 200, TRUE, "", <<>>, GetTok(ss.body, "transaction_id"))

\* The CRM fetch settles; acUpsertFieldValues turns a rejection into a result.
StoreStatusCCrmReturn(crmOk) ==
  /\ ss.pc = "crmC"
  /\ crmOk \in BOOLEAN
  /\ ss' = Idle
  /\ calls' = {}
  /\ resp' = [IF CrmCaught(crmOk)
              THEN Reply("store-status", 200, TRUE, "", <<>>, GetTok(ss.body, "transaction_id"))
              ELSE Reply("store-status", 500, FALSE, "Internal error", <<>>, "")
                EXCEPT !.crm = CrmOutcome(crmOk)]
  /\ otpReply' = "none"
  /\ lookup' = NoLookup
  /\ UNCHANGED <<index, memC, norm, gen, statuses, logPrimary, logFallback, codeFile, codeRepo, now,
                 pv, confirmed, issued>>

\* The log lines that name the transaction (searchLogs of /check-status)
LogHits(tid) ==
  {e \in LogEntries : e.json # <<>> /\ GetTok(e.json[1], "transaction_id") = tid}

\* GET /check-status of generation C: memory first, then the logs
CheckStatusC(auth, tid) ==
  /\ gen = "C"
  /\ IF ~auth
     THEN Polled(Reply("check-status", 401, FALSE, "Unauthorized", <<>>, tid), <<>>, <<>>)
     ELSE IF tid = ""
     THEN Polled(Reply("check-status", 400, FALSE, "transaction_id is required", <<>>, tid), <<>>, <<>>)
     ELSE IF memC.statuses[tid] # <<>>
     THEN Polled(Reply("check-status", 200, TRUE, "", <<>>, tid), <<>>, memC.statuses[tid])
     ELSE IF LogHits(tid) # {}
     THEN \E e \in LogHits(tid) :
            Polled(Reply("check-status", 200, TRUE, "match in logs", <<>>, tid), <<>>, e.json)
     ELSE Polled(Reply("check-status", 404, FALSE, "Not found", <<>>, tid), <<>>, <<>>)

\* Bodies with a status outside the three, without status, without id
BodyOdd == [transaction_id |-> "t1", status |-> "refunded", loan_id |-> LoanA,
            contract_expiration |-> ExpSlash]

BodyNoStatus == [transaction_id |-> "t2", loan_id |-> LoanB, contract_expiration |-> ExpSlash,
                 phone |-> PhoneB]

RelayBodies == {BodyA("approved"), BodyOdd, BodyNoStatus, BodyNoId}

RelaySubmissions == {SubA, SubNoOtp}

PollIds == Tx \cup {""}

InitRelay ==
  /\ gen \in {"B", "C", "D"}
  /\ codeFile = MissingFile
  /\ codeRepo = MissingFile
  /\ statuses = [t \in Tx |-> ""]
  /\ memC = NoMemC
  /\ index = NoIndex
  /\ norm = NoNorm
  /\ logPrimary = <<>>
  /\ logFallback = <<>>
  /\ now = 0
  /\ pv = Idle
  /\ ss = Idle
  /\ resp = NoResp
  /\ calls = {}
  /\ otpReply = "none"
  /\ lookup = NoLookup
  /\ confirmed = {}
  /\ issued = {}

\* Log lines the relay specification lets the handlers write
MaxRelay == 1

RelayRoom == Len(logPrimary) + Len(logFallback) < MaxRelay

NextRelay ==
  \/ \E auth \in BOOLEAN, body \in RelayBodies, appended \in BOOLEAN :
       (auth => RelayRoom) /\ StoreStatus(auth, body, appended)
  \/ \E auth \in BOOLEAN, body \in RelayBodies, wrotePrimary \in BOOLEAN, wroteFallback \in BOOLEAN :
       (auth => RelayRoom) /\ StoreStatusD(auth, body, wrotePrimary, wroteFallback)
  \/ \E crmOk \in BOOLEAN : StoreStatusCrmReturn(crmOk)
  \/ \E auth \in BOOLEAN, body \in RelayBodies :
       (auth => RelayRoom) /\ StoreStatusC(auth, body)
  \/ \E wrotePrimary \in BOOLEAN, wroteFallback \in BOOLEAN :
       StoreStatusCAppend(wrotePrimary, wroteFallback)
  \/ \E crmOk \in BOOLEAN : StoreStatusCCrmReturn(crmOk)
  \/ \E tid \in PollIds : ClientCheckStatus(tid)
  \/ \E auth \in BOOLEAN, tid \in PollIds : CheckStatus(auth, tid)
  \/ \E auth \in BOOLEAN, tid \in PollIds : CheckStatusC(auth, tid)
  \/ \E sub \in RelaySubmissions : gen = "B" /\ PreValidate(sub)
  \/ PreValidateResume
  \/ \E outcome \in OtpOutcomes : PreValidateOtpReturn(outcome)

SpecRelay == InitRelay /\ [][NextRelay]_vars

(***************************************************************************)
(* The payload index (lib/payloadIndex.js): payload_index.json holds four  *)
(* maps, byKey (sha256(loan|exp) -> record), byCode (code -> key), byPhone *)
(* (last 10 digits -> keys) and byEmail (email -> keys).  A JSON object is *)
(* a function; phones and emails of a record, objects whose values are all *)
(* `true`, are sets; null is <<>>.                                         *)
(***************************************************************************)
\* obj[k], <<>> when the object has no such key
At(obj, k) == IF k \in DOMAIN obj THEN obj[k] ELSE <<>>

\* last10(payload.phone || payload.customer_phone || payload.client_phone || '')
PayloadPhone(payload) ==
  SliceLast(DigitsOnly(OrElse(Get(payload, "phone"),
                              OrElse(Get(payload, "customer_phone"),
                                     Get(payload, "client_phone")))), PhoneDigits)

\* String(payload.email || payload.customer_email || '').trim().toLowerCase()
PayloadEmail(payload) ==
  ToLowerCase(Trim(OrElse(Get(payload, "email"), Get(payload, "customer_email"))))

\* A push that does not look whether the key is listed.
Pushed_Always(list, key) ==
  Append(list, key)

\* if (!list.includes(key)) list.push(key)
Pushed(list, key) ==
  IF \E i \in 1..Len(list) : list[i] = key THEN list ELSE Append(list, key)

\* if (v) { if (!map[v]) map[v] = []; if (!map[v].includes(key)) map[v].push(key); }
Listed(map, v, key) ==
  IF v = <<>> THEN map ELSE (v :> Pushed(At(map, v), key)) @@ map

\* idx.byKey[key] || { loan_id, contract_expiration: exp, code, phones: {}, ... }
RecordOf(idx, key, loan_id, exp, code) ==
  IF key \in DOMAIN idx.byKey THEN idx.byKey[key]
  ELSE [loan_id |-> loan_id, contract_expiration |-> exp, code |-> code,
        phones |-> {}, emails |-> {}, lastPayload |-> <<>>, updatedAt |-> <<>>]

\* The index upsertIndexFromPayload hands to savePayloadIndex, at time t
Upserted(idx, payload, loan_id, exp, code, t) ==
  LET key   == Sha256Hex(Seed(loan_id, exp))
      phone == PayloadPhone(payload)
      email == PayloadEmail(payload)
      old   == RecordOf(idx, key, loan_id, exp, code)
      rec   == [old EXCEPT !.phones = IF phone # <<>> THEN @ \cup {phone} ELSE @,
                           !.emails = IF email # <<>> THEN @ \cup {email} ELSE @,
                           !.lastPayload = <<payload>>,
                           !.updatedAt = <<t>>]
  IN  [byKey   |-> (key :> rec) @@ idx.byKey,
       byCode  |-> (code :> key) @@ idx.byCode,
       byPhone |-> Listed(idx.byPhone, phone, key),
       byEmail |-> Listed(idx.byEmail, email, key)]

\* upsertIndexFromPayload(payload) at time t on the index file `idx` and the
\* code store `file`: the outcomes of one call.  fs.writeFileSync of the
\* code store is not caught (the call throws before the index is read);
\* savePayloadIndex catches a failed write, and `saved` tells whether its
\* write went through.
UpsertIndexFromPayload(idx, file, payload, t, saved) ==
  LET loan_id == Trim(Get(payload, "loan_id"))
      exp     == Trim(Get(payload, "contract_expiration"))
  IN  IF loan_id = <<>> \/ exp = <<>>
      THEN {[idx |-> idx, file |-> file, out |-> "skipped"]}
      ELSE {IF o.threw THEN [idx |-> idx, file |-> o.file, out |-> "threw"]
            ELSE IF saved
              THEN [idx |-> Upserted(idx, payload, loan_id, exp, o.ret, t),
                    file |-> o.file, out |-> "saved"]
            ELSE [idx |-> idx, file |-> o.file, out |-> "unsaved"]
            : o \in GetOrGenerateTwistCode(file, loan_id, exp)}

\* The call before this one was made with the same payload and was saved.
Again(payload) ==
  norm.fn = "upsertIndexFromPayload" /\ norm.raw = <<payload>> /\ "saved" \in norm.out

\* One call of upsertIndexFromPayload; norm keeps, as history, the payload,
\* the outcome and whether the call repeats the one before it
UpsertStep(payload, saved) ==
  \E o \in UpsertIndexFromPayload(index, codeFile, payload, now, saved) :
    /\ index' = o.idx
    /\ codeFile' = o.file
    /\ norm' = [fn |-> "upsertIndexFromPayload", raw |-> <<payload>>,
                out |-> {o.out} \cup IF Again(payload) THEN {"again"} ELSE {}]

CallUpsertIndexFromPayload(payload, saved) ==
  /\ UpsertStep(payload, saved)
  /\ resp' = NoResp
  /\ calls' = {}
  /\ otpReply' = "none"
  /\ lookup' = NoLookup
  /\ UNCHANGED <<memC, gen, statuses, logPrimary, logFallback, codeRepo, now, pv, ss,
                 confirmed, issued>>

\* A payload that names the loan of BodyB by other field names, with the
\* phone and the email of BodyA
BodyShared ==
  [transaction_id |-> "t2", status |-> "approved", loan_id |-> LoanB,
   contract_expiration |-> ExpSlash, customer_phone |-> PhoneA,
   customer_email |-> <<"A","@","X",".","c","a"," ">>]

\* The loan of BodyA with blanks around it
BodyPadded ==
  [transaction_id |-> "t1", status |-> "denied", loan_id |-> <<" ">> \o LoanA \o <<" ">>,
   contract_expiration |-> ExpIso, client_phone |-> PhoneB]

IndexPayloads == {BodyA("approved"), BodyB("approved"), BodyShared, BodyPadded, BodyBare}

InitIndex ==
  /\ index = NoIndex
  /\ norm = NoNorm
  /\ memC = NoMemC
  /\ gen = "B"
  /\ codeFile \in {MissingFile, CorruptFile, LegacyFile("B")}
  /\ codeRepo = MissingFile
  /\ statuses = [t \in Tx |-> ""]
  /\ logPrimary = <<>>
  /\ logFallback = <<>>
  /\ now = 0
  /\ pv = Idle
  /\ ss = Idle
  /\ resp = NoResp
  /\ calls = {}
  /\ otpReply = "none"
  /\ lookup = NoLookup
  /\ confirmed = {}
  /\ issued = {}

NextIndex ==
  \/ \E payload \in IndexPayloads, saved \in BOOLEAN : CallUpsertIndexFromPayload(payload, saved)
  \/ Tick

SpecIndex == InitIndex /\ [][NextIndex]_vars

(***************************************************************************)
(* Ingestion and rebuild of the index.  The library exports the upsert;    *)
(* the ingestion that logs an entry and upserts it, and the rebuild that   *)
(* replays the log through the upsert, are those of the specification      *)
(* (sections 4.1 and 4.5).                                                 *)
(***************************************************************************)
\* The index and code store after replaying `log` in log order through
\* upsertIndexFromPayload, starting from `idx`; entries that do not parse
\* are passed over, and every write of the replay goes through.
RECURSIVE Replayed(_, _, _, _)
Replayed(log, idx, file, t) ==
  IF log = <<>> THEN {[idx |-> idx, file |-> file]}
  ELSE IF Head(log).json = <<>> THEN Replayed(Tail(log), idx, file, t)
  ELSE UNION {Replayed(Tail(log), o.idx, o.file, t) :
                o \in {x \in UpsertIndexFromPayload(idx, file, Head(log).json[1], t, TRUE) :
                         x.out # "threw"}}

\* rebuildFromLog(): from an empty index
RebuildFromLog(log, file, t) == Replayed(log, NoIndex, file, t)

\* Ingestion of one entry: it is appended to the record store and upserted
Ingest(body, saved) ==
  /\ Len(logPrimary) <= MaxLog
  /\ logPrimary' = Append(logPrimary, LogLine(Len(logPrimary) + 1, now, body))
  /\ UpsertStep(body, saved)
  /\ resp' = NoResp
  /\ calls' = {}
  /\ otpReply' = "none"
  /\ lookup' = NoLookup
  /\ UNCHANGED <<memC, gen, statuses, logFallback, codeRepo, now, pv, ss, confirmed, issued>>

InitRebuild ==
  /\ index = NoIndex
  /\ norm = NoNorm
  /\ memC = NoMemC
  /\ gen = "B"
  /\ codeFile \in {MissingFile, LegacyFile("B")}
  /\ codeRepo = MissingFile
  /\ statuses = [t \in Tx |-> ""]
  /\ logPrimary \in {<<>>, <<JunkStamped(0)>>}
  /\ logFallback = <<>>
  /\ now = 0
  /\ pv = Idle
  /\ ss = Idle
  /\ resp = NoResp
  /\ calls = {}
  /\ otpReply = "none"
  /\ lookup = NoLookup
  /\ confirmed = {}
  /\ issued = {}

NextRebuild ==
  \E body \in IndexPayloads, saved \in BOOLEAN : Ingest(body, saved)

SpecRebuild == InitRebuild /\ [][NextRebuild]_vars

(***************************************************************************)
(* Two /store-status requests in flight at once (generation B): one awaits *)
(* the CRM while the other is handled.                                     *)
(***************************************************************************)
\* The pair of BodyA, without an email
BodyQuiet ==
  [transaction_id |-> "t2", status |-> "approved", loan_id |-> LoanA,
   contract_expiration |-> ExpIso]

RaceBodies == {BodyA(s) : s \in StatusValues} \cup {BodyQuiet, BodyB("approved"), BodyBare}

NextRace ==
  \/ \E auth \in BOOLEAN, body \in RaceBodies, appended \in BOOLEAN :
       StoreStatus(auth, body, appended)
  \/ \E auth \in BOOLEAN, body \in RaceBodies, appended \in BOOLEAN :
       StoreStatusMeanwhile(auth, body, appended)
  \/ \E crmOk \in BOOLEAN : StoreStatusCrmReturn(crmOk)

SpecRace == Init /\ [][NextRace]_vars

(***************************************************************************)
(* The server with its collaborators answering: a request that awaits the  *)
(* CRM or the OTP service is resumed (the fetch resolves or rejects), and  *)
(* a /pre-validate that has read the log goes on to its checks.            *)
(***************************************************************************)
SpecLive ==
  /\ Spec
  /\ WF_vars(\E crmOk \in BOOLEAN : StoreStatusCrmReturn(crmOk))
  /\ WF_vars(PreValidateResume)
  /\ WF_vars(\E outcome \in OtpOutcomes : PreValidateOtpReturn(outcome))

(***************************************************************************)
(* Generation B with its polls: stores, validations and status polls.      *)
(***************************************************************************)
NextPoll ==
  \/ \E auth \in BOOLEAN, body \in Bodies, appended \in BOOLEAN : StoreStatus(auth, body, appended)
  \/ \E crmOk \in BOOLEAN : StoreStatusCrmReturn(crmOk)
  \/ \E sub \in {SubA, SubNoOtp} : PreValidate(sub)
  \/ PreValidateResume
  \/ \E outcome \in OtpOutcomes : PreValidateOtpReturn(outcome)
  \/ \E tid \in PollIds : ClientCheckStatus(tid)
  \/ \E auth \in BOOLEAN, tid \in PollIds : CheckStatus(auth, tid)

SpecPoll == Init /\ [][NextPoll]_vars

(***************************************************************************)
(* Properties of the server.                                               *)
(***************************************************************************)

\* C1: once statuses[transaction_id] is 'approved' or 'denied', no later
\* request changes it.
C1_TerminalStatus ==
  [][\A t \in Tx : statuses[t] \in StatusValues => statuses'[t] = statuses[t]]_vars

\* C6: when every check before the OTP passed and the OTP collaborator
\* rejects the code, the response is the denial 'OTP invalid or expired.' and
\* statuses is left as it was.
C6_OtpRejected ==
  [][otpReply' = "reject" =>
       /\ pv.pc = "otp"
       /\ PreValidateChecks(pv.sub, pv.latest, codeFile) = ""
       /\ resp' = Deny(pv.sub, pv.latest, "OTP invalid or expired.")
       /\ statuses' = statuses]_vars

C6_Witness ==
  /\ otpReply = "reject"
  /\ resp.message = "OTP invalid or expired."
  /\ statuses[resp.tid] # "pending"

\* C7: a validation for a (phone, otpCode) pair that a validation already
\* succeeded for makes no second call to the OTP collaborator.  (The clock does
\* not advance in this specification: every repetition is within 10 minutes.)
C7_ConfirmedPairNotReverified ==
  \A c \in calls : c.to = "otp" => <<c.phone, c.code>> \notin confirmed

\* C8: when /pre-validate answers ok, statuses[transaction_id] is 'pending'
\* and the loan_id of the answer is that of the log entry matched by the last
\* 6 digits of the card.
C8_SuccessMarksPending ==
  [][(resp'.route = "pre-validate" /\ resp'.ok) =>
       /\ pv.pc = "otp"
       /\ otpReply' = "success"
       /\ statuses'[GetTok(pv.sub, "transaction_id")] = "pending"
       /\ resp'.tid = GetTok(pv.sub, "transaction_id")
       /\ pv.latest # <<>>
       /\ resp'.loan_id = Get(pv.latest[1], "loan_id")
       /\ EndsWith(resp'.loan_id, SliceLast(CleanCard(pv.sub), SuffixLength))
       /\ \E i \in 1..Len(logFallback) : logFallback[i].json = pv.latest]_vars

C8_Witness ==
  /\ resp.route = "pre-validate"
  /\ resp.ok
  /\ resp.loan_id = LoanA
  /\ statuses[resp.tid] = "pending"

\* C2: getOrGenerateTwistCode is idempotent: every call for a pair returns the
\* code the first call for that pair returned.
C2_Idempotent ==
  \A a, b \in issued : (a.loan = b.loan /\ a.exp = b.exp) => a.code = b.code

C2_Witness ==
  \E a, b \in issued : a.loan = b.loan /\ a.exp = b.exp /\ a.fresh /\ ~b.fresh

\* C3: a key of the code store keeps its code: no call removes or replaces it,
\* whether the store file was found present, missing or unparseable.
C3_StoredCodesImmutable ==
  [][\A k \in DOMAIN CodeView :
       HasCode(CodeView, k) => (k \in DOMAIN CodeView' /\ CodeView'[k] = CodeView[k])]_vars

C3_Witness ==
  /\ HasCode(CodeView, CodeKey(gen, LoanA, ExpIso))
  /\ CodeView[CodeKey(gen, LoanA, ExpIso)] = LegacyCode
  /\ \E i \in issued : i.fresh /\ HasCode(CodeView, CodeKey(gen, i.loan, i.exp))
  /\ \E i \in issued : ~i.fresh /\ i.code = LegacyCode

\* C4: the code created for a key that is not yet in the store is the one
\* derived from (loan_id, expiration): the first 12 sha256 digest bytes mod 10.
C4_DerivationDeterministic ==
  \A i \in issued : i.fresh => i.code = Generate12DigitCode(i.loan, i.exp)

\* The entries of the log a lookup can see that match its suffix: the library
\* reads both files, generation B's server its one file.
Matching ==
  {e \in (IF lookup.by = "server" /\ gen = "B"
          THEN {logFallback[i] : i \in 1..Len(logFallback)} ELSE LogEntries) :
     LoanMatches(e, lookup.last6)}

\* C9: the loan-suffix lookup returns the payload of the last-appended
\* parseable entry whose loan_id ends with the suffix.
C9_LastAppendedWins ==
  lookup.by # "none" =>
    IF Matching = {} THEN lookup.found = <<>>
    ELSE \E e \in Matching : lookup.found = e.json /\ \A f \in Matching : f.n <= e.n

Rank(message) ==
  CASE message \in {"Card prefix invalid.", "Card length invalid.", "Card number invalid."} -> 1
    [] message = "No matching loan found." -> 2
    [] message = "Email does not match account." -> 3
    [] message = "Phone does not match account." -> 4
    [] message \in {"Postal code does not match account.", "Postal code mismatch."} -> 5
    [] message = "Amount exceeds available credit." -> 7
    [] message \in {"Expiration format invalid.", "Expiration does not match contract.",
                    "Expiration mismatch."} -> 8
    [] message \in {"TWIST code incorrect.", "TWIST code mismatch."} -> 9
    [] OTHER -> 10

\* The checks a submission fails against a record, each taken on its own
FailedChecks(route, sub, latest, file) ==
  IF route = "pre-validate"
  THEN {k \in 3..9 :
          \/ k = 3 /\ EmailMismatch(sub, latest)
          \/ k = 4 /\ PhoneMismatch(sub, latest)
          \/ k = 5 /\ PostalMismatch(sub, latest)
          \/ k = 7 /\ AmountExceeds(sub, latest)
          \/ k = 8 /\ (ExpirationFormatInvalid(sub) \/ ExpirationMismatch(sub, latest))
          \/ k = 9 /\ TwistIncorrect(sub, latest, file)}
  ELSE {k \in 3..9 :
          \/ k = 5 /\ LibPostalMismatch(sub, latest)
          \/ k = 7 /\ LibAmountExceeds(sub, latest)
          \/ k = 8 /\ LibExpirationMismatch(sub, latest)
          \/ k = 9 /\ LibTwistMismatch(sub, latest, file)}

\* C5: a denial carries the reason of the earliest check the submission fails
\* in the order card, lookup, email, phone, postal, province, amount,
\* expiration, code, OTP.
C5_EarliestFailingCheck ==
  (resp.req # <<>> /\ resp.rec # <<>> /\ ~resp.ok /\ resp.http # 500) =>
    \A k \in FailedChecks(resp.route, resp.req[1], resp.rec[1], codeFile) :
      Rank(resp.message) <= k

\* The same, of /pre-validate alone
C5_PreValidateOrder ==
  resp.route = "pre-validate" => C5_EarliestFailingCheck

\* The lines of a log that carry an object JSON.parse accepts
WithoutJunk(lines) == SelectSeq(lines, LAMBDA line : line.json # <<>>)

\* C11: a line without a JSON object, or whose JSON does not parse, never
\* changes what a scan returns: every loan-suffix lookup returns the record
\* it returns over the same log with those lines removed.
C11_JunkLinesIgnored ==
  lookup.by # "none" =>
    lookup.found =
      IF lookup.by = "lib"
      THEN FindLatestPayloadByLoanIdEndsWith(WithoutJunk(logPrimary), WithoutJunk(logFallback),
                                             lookup.last6)
      ELSE IF gen = "D"
      THEN ReadLatestPayloadByLoanIdEndsWithD(WithoutJunk(logPrimary), WithoutJunk(logFallback),
                                              lookup.last6)
      ELSE ReadLatestPayloadByLoanIdEndsWith(WithoutJunk(logFallback), lookup.last6)

\* The scans of the server alone (server.js), which C11 holds for.
C11_ServerScanIgnoresJunk ==
  lookup.by = "server" => C11_JunkLinesIgnored


\* A card number as the specification asks for it: fourteen digits, the
\* issuer prefix first
WellFormedCard(sub) ==
  LET digits == DigitsOnly(Get(sub, "cardNumber"))
  IN  Len(digits) = LibCardLength /\ StartsWith(digits, IssuerPrefix)

\* The answer denies the submission at the card format check, before any
\* record is looked up
CardFormatDenied ==
  /\ resp.req # <<>>
  /\ ~resp.ok
  /\ Rank(resp.message) = 1
  /\ lookup.by = "none"

\* C12: a submission is denied with the card-number reason unless its card
\* number, reduced to digits, has exactly 14 digits and starts with the
\* issuer prefix; a card with both passes the card format check.
C12_CardFormat ==
  resp.req # <<>> => (CardFormatDenied <=> ~WellFormedCard(resp.req[1]))

\* The answer denies the submission because no record matches the last six
\* digits of a card that passed the route's format check
NotFoundDenied ==
  /\ resp.req # <<>>
  /\ ~resp.ok
  /\ resp.http \notin {400, 500}
  /\ resp.rec = <<>>
  /\ IF resp.route = "pre-validate"
     THEN CardChecks(resp.req[1]) = ""
     ELSE ~LibCardInvalid(resp.req[1])

\* The (ok, message) answers a route gives to malformed card numbers
MalformedCardAnswers(route) ==
  IF route = "pre-validate"
  THEN {<<FALSE, CardChecks(sub)>> : sub \in {x \in ValidateSubmissions \cup Submissions \cup CheckSubmissions :
                                                 CardChecks(x) # ""}}
  ELSE {<<FALSE, "Card number invalid.">>}

\* C13: a submission denied because no record matches the card's last six
\* digits gets the same ok flag and message as a submission denied for a
\* malformed card number, so that the answer does not tell whether a loan
\* suffix exists.
C13_NotFoundLooksMalformed ==
  NotFoundDenied => <<resp.ok, resp.message>> \in MalformedCardAnswers(resp.route)

\* The email of a record: its email field, else its customer_email
RecordEmail(latest) == OrElse(Get(latest, "email"), Get(latest, "customer_email"))

\* The answer of /pre-validate to a submission whose card matched a record
JudgedAgainstRecord ==
  resp.route = "pre-validate" /\ resp.req # <<>> /\ resp.rec # <<>>

EmailDenied == resp.message = "Email does not match account."

\* C14 as stated: when the matched record has an email, the submission is
\* denied with the email reason iff the submitted email differs from it after
\* case folding; when the record has no email the check always passes.
C14_EmailCaseFolded ==
  JudgedAgainstRecord =>
    (EmailDenied <=>
       /\ RecordEmail(resp.rec[1]) # <<>>
       /\ ToLowerCase(Get(resp.req[1], "email")) # ToLowerCase(RecordEmail(resp.rec[1])))

\* C14, amended: the two emails are compared after surrounding whitespace is
\* removed and case is folded; differing only in that, they match.
C14_EmailTrimmedAndCaseFolded ==
  JudgedAgainstRecord =>
    (EmailDenied <=>
       /\ RecordEmail(resp.rec[1]) # <<>>
       /\ ToLowerCase(Trim(Get(resp.req[1], "email"))) #
            ToLowerCase(Trim(RecordEmail(resp.rec[1]))))

\* A submission whose email differs from the record's only in case and in a
\* leading blank is judged against that record and passes the email check.
C14_Witness ==
  /\ JudgedAgainstRecord
  /\ RecordEmail(resp.rec[1]) # <<>>
  /\ Get(resp.req[1], "email") # RecordEmail(resp.rec[1])
  /\ ~EmailDenied

PhoneDenied == resp.message = "Phone does not match account."

\* The last ten digits of a phone value
Last10(v) == SliceLast(DigitsOnly(v), PhoneDigits)

\* C15: a submission that reaches the phone check passes it only when the
\* last 10 digits of its phone equal the last 10 digits of the record's
\* phone; in every other case, a record without a phone included, it is
\* denied with the phone reason.
C15_PhoneMustMatch ==
  (JudgedAgainstRecord /\ ~EmailDenied) =>
    (PhoneDenied <=>
       \/ Get(resp.rec[1], "phone") = <<>>
       \/ Last10(Get(resp.req[1], "phone")) # Last10(Get(resp.rec[1], "phone")))

AmountDenied == resp.message = "Amount exceeds available credit."

\* The answer judges a submission that the checks made before the amount
\* check let through: email, phone and postal code in /pre-validate,
\* expiration, code and postal code in validateTransaction
ReachedAmountCheck ==
  /\ resp.req # <<>>
  /\ resp.rec # <<>>
  /\ resp.http \notin {400, 500}
  /\ Rank(resp.message) \notin (IF resp.route = "pre-validate" THEN {3, 4, 5} ELSE {5, 8, 9})

\* C16: a submission is denied with 'amount exceeds available credit' iff
\* its amount is greater than the record's available_credit; an amount equal
\* to it passes, and no zero, non-numeric or signed amount is denied so.
C16_AmountBoundary ==
  ReachedAmountCheck =>
    (AmountDenied <=>
       LET amount == ToNumber(Get(resp.req[1], "amount"))
           available == ToNumber(Get(resp.rec[1], "available_credit"))
       IN  amount.fin /\ available.fin /\ NumGreater(amount, available))

\* The canonical MMYY of an expiration written as MMYY, MM/YY or YYYY-MM-DD,
\* <<>> for any other value
CanonicalMMYY(v) ==
  IF IsFourDigits(v) THEN v
  ELSE IF Len(v) = 5 /\ v[3] = "/" /\ IsFourDigits(<<v[1], v[2], v[4], v[5]>>)
    THEN <<v[1], v[2], v[4], v[5]>>
  ELSE IF Len(v) = 10 /\ v[5] = "-" /\ v[8] = "-" /\
          \A i \in {1, 2, 3, 4, 6, 7, 9, 10} : IsDigit(v[i])
    THEN <<v[6], v[7], v[3], v[4]>>
  ELSE <<>>

ExpirationDenied == Rank(resp.message) = 8

\* The answer judges a submission that the checks made before the expiration
\* check let through: in validateTransaction it is the first after the lookup
ReachedExpirationCheck ==
  /\ resp.req # <<>>
  /\ resp.rec # <<>>
  /\ resp.http \notin {400, 500}
  /\ resp.route = "pre-validate" => Rank(resp.message) \notin {3, 4, 5, 7}

\* C17: a submission passes the expiration check iff its expiration and the
\* record's contract_expiration have the same canonical MMYY, whichever of
\* the formats MMYY, MM/YY and YYYY-MM-DD each is written in.
C17_ExpirationAnyFormat ==
  ReachedExpirationCheck =>
    (~ExpirationDenied <=>
       /\ CanonicalMMYY(Get(resp.req[1], "expiration")) # <<>>
       /\ CanonicalMMYY(Get(resp.req[1], "expiration")) =
            CanonicalMMYY(Get(resp.rec[1], "contract_expiration")))

\* The encodings of an expiration: the raw string and, when it has a
\* canonical MMYY, that and its MM/YY form
Encodings(raw) ==
  LET c == CanonicalMMYY(raw)
  IN  {raw} \cup (IF c = <<>> THEN {} ELSE {c, <<c[1], c[2], "/", c[3], c[4]>>})

\* The codes the store holds for a record's loan id under any encoding of
\* its raw expiration
CodesOfRecord(file, latest) ==
  LET map == ReadCodeJson(file)
  IN  {map[Sha256Hex(Seed(Get(latest, "loan_id"), e))] :
         e \in {x \in Encodings(Get(latest, "contract_expiration")) :
                  Sha256Hex(Seed(Get(latest, "loan_id"), x)) \in DOMAIN map}}

CodeDenied == Rank(resp.message) = 9

\* The answer judges a submission that the checks made before the code
\* check let through
ReachedCodeCheck ==
  /\ resp.req # <<>>
  /\ resp.rec # <<>>
  /\ resp.http \notin {400, 500}
  /\ Rank(resp.message) \notin (IF resp.route = "pre-validate" THEN {3, 4, 5, 7, 8} ELSE {8})

\* C18: when the store holds a code for the record's loan id under any
\* encoding of the record's expiration (MMYY, MM/YY or YYYY-MM-DD), a
\* submission carrying digits 4..7 of that code passes the code check, and
\* one carrying another slice is denied with the code reason.
C18_CodeUnderAnyEncoding ==
  ReachedCodeCheck =>
    LET codes == CodesOfRecord(codeFile, resp.rec[1])
        twist == Get(resp.req[1], "twist")
    IN  /\ (\E code \in codes : twist = Slice(code, SliceFrom, SliceTo)) => ~CodeDenied
        /\ (codes # {} /\ \A code \in codes : twist # Slice(code, SliceFrom, SliceTo))
             => CodeDenied

\* C19: the expiration normalizer maps every value written as MMYY, MM/YY
\* or YYYY-MM-DD to its canonical 4-digit MMYY ('2025-03-01', '03/25' and
\* '0325' all give '0325') and gives no canonical form for any other input.
C19_NormalizerCanonical ==
  norm.fn \in {"toMMYY", "normalizeMMYYFromStored"} =>
    /\ norm.out = {CanonicalMMYY(norm.raw)}
    /\ norm.raw \in {ExpIso, ExpSlash, ExpBare} => norm.out = {ExpBare}

\* C20: the alternate-encoding set of an expiration holds the raw string and
\* its other written forms: '03/25' gives exactly {'03/25', '0325'},
\* '2025-03-01' gives exactly {'0325', '03/25', '2025-03-01'}, and every
\* MMYY or MM/YY writing of the same date is in the set of each writing the
\* normalizer accepts (the day of a YYYY-MM-DD writing cannot be recovered
\* from the other two).
C20_AlternateEncodings ==
  norm.fn \in {"expVariants", "expCandidates"} =>
    /\ norm.raw = ExpSlash => norm.out = {ExpSlash, ExpBare}
    /\ norm.raw = ExpIso => norm.out = {ExpBare, ExpSlash, ExpIso}
    /\ CanonicalMMYY(norm.raw) # <<>> =>
         /\ norm.raw \in norm.out
         /\ \A other \in ExpInputs :
              (CanonicalMMYY(other) = CanonicalMMYY(norm.raw) /\ ~IsIsoDate(other))
                => other \in norm.out

\* The set of a YYYY-MM-DD expiration has been computed: its three forms.
C20_Witness ==
  /\ norm.fn \in {"expVariants", "expCandidates"}
  /\ norm.raw = ExpIso
  /\ Cardinality(norm.out) = 3

\* C21: the verification slice is the characters at 0-indexed positions
\* 4..7 of the stored code, and there is none when the stored value has fewer
\* than 12 characters.
C21_SliceIsMiddleFour ==
  norm.fn \in {"middle4Of", "getMiddle4FromCodeJson"} =>
    norm.out = {IF Len(norm.raw) < 12 THEN <<>>
                ELSE <<norm.raw[5], norm.raw[6], norm.raw[7], norm.raw[8]>>}

\* A slice has been taken of a 12-digit code.
C21_Witness ==
  /\ norm.fn \in {"middle4Of", "getMiddle4FromCodeJson"}
  /\ Len(norm.raw) = 12
  /\ norm.out # {<<>>}

\* C22: the E.164 form is '+1' followed by the digits when exactly 10 digits
\* remain after the non-digits are removed, and there is none for every
\* other count of digits, fewer or more.
C22_ExactlyTenDigits ==
  norm.fn = "normE164CA" =>
    norm.out = {IF Len(DigitsOnly(norm.raw)) = 10 THEN <<"+", "1">> \o DigitsOnly(norm.raw)
                ELSE <<>>}

\* C23: in every reachable state every value in the statuses map is one of
\* pending, approved or denied (an id without a value has no entry).
C23_StatusIsOneOfThree ==
  \A t \in Tx : statuses[t] # "" => statuses[t] \in {"pending", "approved", "denied"}

\* C24: a poll for a transaction_id answers with the status now stored for
\* it, and with 'pending' when the id was never seen.
C24_PollReturnsStoredStatus ==
  /\ resp.route \in {"client-check-status", "check-status"}
  /\ resp.tid # ""
  /\ resp.http # 401
  => /\ resp.http = 200
     /\ resp.status =
          IF gen = "C"
          THEN IF memC.statuses[resp.tid] = <<>> THEN <<"pending">>
               ELSE <<GetTok(memC.statuses[resp.tid][1].payload, "status")>>
          ELSE IF statuses[resp.tid] = "" THEN <<"pending">> ELSE <<statuses[resp.tid]>>

\* What a step leaves alone when it has no effect: the log files, the
\* statuses, the code store, and no call goes out.
NoEffect ==
  /\ statuses' = statuses
  /\ memC' = memC
  /\ logPrimary' = logPrimary
  /\ logFallback' = logFallback
  /\ codeFile' = codeFile
  /\ codeRepo' = codeRepo
  /\ calls' = {}

\* A step of /store-status, of whichever generation, on this request
StoreStatusStep(auth, body) ==
  \/ \E appended \in BOOLEAN : StoreStatus(auth, body, appended)
  \/ \E wrotePrimary \in BOOLEAN, wroteFallback \in BOOLEAN :
       StoreStatusD(auth, body, wrotePrimary, wroteFallback)
  \/ StoreStatusC(auth, body)

\* C25: a /store-status request without the correct key is answered 401 and
\* changes neither the log, the statuses, the code store nor the index (which
\* is read from the log), and calls no CRM.
C25_UnauthorizedHasNoEffect ==
  [][\A body \in RelayBodies :
       StoreStatusStep(FALSE, body) => resp'.http = 401 /\ NoEffect]_vars

\* A request without the key has been refused after a status was stored.
C25_Witness ==
  /\ resp.route = "store-status"
  /\ resp.http = 401
  /\ LogEntries # {}
  /\ \E t \in Tx : statuses[t] # "" \/ memC.statuses[t] # <<>>

\* The log, the statuses and the code store are as they were
Untouched ==
  /\ statuses' = statuses
  /\ memC' = memC
  /\ logPrimary' = logPrimary
  /\ logFallback' = logFallback
  /\ codeFile' = codeFile
  /\ codeRepo' = codeRepo

LacksIdOrStatus(body) ==
  "transaction_id" \notin DOMAIN body \/ "status" \notin DOMAIN body

LacksRequired(sub) ==
  \E f \in {"transaction_id", "orderno", "otpCode"} : f \notin DOMAIN sub \/ sub[f] = ""

\* C26: a /store-status request without transaction_id or status, and a
\* /pre-validate request without a required field, are answered 400 and leave
\* the log, the statuses and the code store as they were.
C26_InvalidInputHasNoEffect ==
  [][/\ \A body \in RelayBodies :
          LacksIdOrStatus(body) /\ StoreStatusStep(TRUE, body) =>
            resp'.http = 400 /\ Untouched
     /\ \A sub \in RelaySubmissions :
          LacksRequired(sub) /\ PreValidate(sub) => resp'.http = 400 /\ Untouched]_vars

\* C27: a validation that ends in a denial, whichever check denies, leaves
\* the statuses, the log and the code store (and the index, which no route
\* writes) as they were: no step of /pre-validate or validateTransaction
\* other than the one that answers ok changes them.
C27_DenialHasNoEffect ==
  [][(pv' # pv \/ resp'.route \in {"pre-validate", "validateTransaction"}) /\ ~resp'.ok
       => Untouched]_vars

\* The OTP has been refused for a transaction whose account is on record.
C27_Witness ==
  /\ resp.route = "pre-validate"
  /\ resp.message = "OTP invalid or expired."
  /\ LogEntries # {}
  /\ \E t \in Tx : statuses[t] # ""

AnsweredSuccess == resp.route = "store-status" /\ resp.http = 200 /\ resp.ok

\* After the step, the status kept for the transaction of `body` is the one
\* the body submitted
SubmittedStatusKept(body) ==
  LET tid == GetTok(body, "transaction_id")
  IN  IF gen = "C"
      THEN tid # "" => memC'.statuses[tid] # <<>> /\ memC'.statuses[tid][1].payload = body
      ELSE statuses'[tid] = GetTok(body, "status")

\* A code is on file in `view` for the loan and expiration of the body, when
\* it has both
CodeOnFile(view, body) ==
  LET loan_id == Get(body, "loan_id")
      contract_expiration == Get(body, "contract_expiration")
  IN  loan_id # <<>> /\ contract_expiration # <<>> =>
        HasCode(view, CodeKey(gen, loan_id, contract_expiration))

\* C28: /store-status calls the CRM only after it has set the submitted
\* status (and, in generation B, appended the log line); when the call fails,
\* the statuses and the log stay as they are and, unless the write of a new
\* code to the code store fails in the same step, the code is on file and the
\* request is answered success.
C28_CrmFailureIsSwallowed ==
  [][/\ ss.pc = "idle" /\ ss'.pc \in {"crm", "appendC"} =>
          /\ SubmittedStatusKept(ss'.body)
          /\ gen = "B" => \E i \in 1..Len(logFallback') : logFallback'[i].json = <<ss'.body>>
     /\ resp'.crm = "failed" /\ ss.pc \in {"crm", "crmC"} =>
          /\ statuses' = statuses /\ memC' = memC
          /\ logPrimary' = logPrimary /\ logFallback' = logFallback
          /\ \/ AnsweredSuccess' /\ (gen # "C" => CodeOnFile(CodeView', ss.body))
             \/ /\ gen # "C"
                /\ ~CodeOnFile(CodeView, ss.body)
                /\ codeFile' = codeFile
                /\ resp'.http = 0]_vars

\* A /store-status whose CRM call failed has been answered success.
C28_Witness ==
  /\ resp.crm = "failed"
  /\ AnsweredSuccess
  /\ LogEntries # {}

\* C29: when the append to the log fails during /store-status the submitted
\* status is kept all the same, and neither that failure nor a failed write
\* of the code store leaves the request without its success answer.
C29_PersistenceFailureIsSwallowed ==
  [][/\ \A body \in RelayBodies :
          /\ ~LacksIdOrStatus(body)
          /\ \/ StoreStatus(TRUE, body, FALSE)
             \/ StoreStatusD(TRUE, body, FALSE, FALSE)
          => SubmittedStatusKept(body)
     /\ resp'.route = "store-status" /\ resp'.http \notin {400, 401} => AnsweredSuccess']_vars

\* C30: when the OTP call throws (or the collaborator cannot be reached), or
\* answers with a body that is not JSON or has no success=true, /pre-validate
\* does not answer ok and does not touch the statuses.
C30_OtpFailureIsFatal ==
  [][otpReply' \in {"throw", "reject", "garbled"} =>
       /\ resp'.route = "pre-validate"
       /\ ~resp'.ok
       /\ statuses' = statuses]_vars

\* The OTP call has thrown and the transaction was answered with an error
\* and is not pending.
C30_Witness ==
  /\ otpReply = "throw"
  /\ resp.route = "pre-validate"
  /\ resp.http = 500
  /\ statuses[resp.tid] # "pending"

IsPrefix(a, b) == Len(a) <= Len(b) /\ SubSeq(b, 1, Len(a)) = a

\* The lines a step added to a file
Added(before, after) == SubSeq(after, Len(before) + 1, Len(after))

\* A line with a timestamp that carries the body: '[ts] ... {body}' or, in
\* generation C's JSON lines, {t, ..., payload: body}
CarriesBody(line, body) ==
  /\ line.json # <<>>
  /\ IF gen = "C"
     THEN "t" \in DOMAIN line.json[1] /\ Get(line.json[1], "payload") = body
     ELSE line.ts # <<>> /\ line.json = <<body>>

\* No line is changed or removed, and what a step adds to a file is at most
\* one line, which carries `body`
OnlyAppends(body) ==
  /\ IsPrefix(logPrimary, logPrimary') /\ IsPrefix(logFallback, logFallback')
  /\ \A added \in {Added(logPrimary, logPrimary'), Added(logFallback, logFallback')} :
       Len(added) <= 1 /\ \A i \in 1..Len(added) : CarriesBody(added[i], body)

SomeLineAdded == Len(logPrimary') + Len(logFallback') > Len(logPrimary) + Len(logFallback)

\* The step in which an accepted /store-status request writes its line, with
\* `written`: an append succeeds
WritesLine(body, written) ==
  \/ gen = "B" /\ ~LacksIdOrStatus(body) /\ StoreStatus(TRUE, body, written)
  \/ /\ gen = "D" /\ ~LacksIdOrStatus(body)
     /\ \E wrotePrimary \in BOOLEAN, wroteFallback \in BOOLEAN :
          /\ (wrotePrimary \/ wroteFallback) = written
          /\ StoreStatusD(TRUE, body, wrotePrimary, wroteFallback)
  \/ /\ gen = "C" /\ ss.pc = "appendC" /\ ss.body = body
     /\ \E wrotePrimary \in BOOLEAN, wroteFallback \in BOOLEAN :
          /\ (wrotePrimary \/ wroteFallback) = written
          /\ StoreStatusCAppend(wrotePrimary, wroteFallback)

HasBoth(body) == Get(body, "loan_id") # <<>> /\ Get(body, "contract_expiration") # <<>>

\* The value on file in `view` for the pair of the body is a 12-digit code
TwelveDigitsOnFile(view, body) ==
  LET key == CodeKey(gen, Get(body, "loan_id"), Get(body, "contract_expiration"))
  IN  /\ HasCode(view, key)
      /\ Len(view[key]) = 12
      /\ DigitsOnly(view[key]) = view[key]

\* The step that answers success to the /store-status request with `body`
Completes(body) ==
  /\ resp'.route = "store-status" /\ resp'.http = 200 /\ resp'.ok
  /\ \/ ss.pc # "idle" /\ ss.body = body
     \/ ss.pc = "idle" /\ StoreStatusStep(TRUE, body)

\* The codes on file stay on file
CodesStay ==
  \A key \in DOMAIN CodeView :
    HasCode(CodeView, key) => HasCode(CodeView', key) /\ CodeView'[key] = CodeView[key]

EnsuresCode(body) ==
  \/ gen = "C" /\ ss.pc = "idle" /\ ss'.pc = "appendC" /\ StoreStatusC(TRUE, body)
  \/ gen # "C" /\ Completes(body)

ApartFromUpdatedAt(idx) ==
  [idx EXCEPT !.byKey = [k \in DOMAIN idx.byKey |-> [idx.byKey[k] EXCEPT !.updatedAt = <<>>]]]

\* C33: a call of upsertIndexFromPayload that repeats the payload of the
\* saved call before it leaves byKey (apart from updatedAt), byCode, byPhone
\* and byEmail as that call left them.
C33_UpsertIsIdempotent ==
  [][norm'.fn = "upsertIndexFromPayload" /\ "again" \in norm'.out
       => ApartFromUpdatedAt(index') = ApartFromUpdatedAt(index)]_vars

\* A payload with a phone and an email was upserted and saved twice in a
\* row, the second time at a later instant.
C33_Witness ==
  /\ norm.fn = "upsertIndexFromPayload"
  /\ norm.out = {"saved", "again"}
  /\ now > 0
  /\ PayloadPhone(norm.raw[1]) \in DOMAIN index.byPhone
  /\ PayloadEmail(norm.raw[1]) \in DOMAIN index.byEmail
  /\ \E k \in DOMAIN index.byKey :
       index.byKey[k].lastPayload = norm.raw /\ index.byKey[k].updatedAt = <<now>>

\* C39: for every index record rec stored under key k, byCode[rec.code] = k
\* and rec.code is the code the code store holds for k.
C39_CodeLookupConsistent ==
  \A k \in DOMAIN index.byKey :
    /\ At(index.byCode, index.byKey[k].code) = k
    /\ index.byKey[k].code = At(ReadCodeJson(codeFile), k)

\* The lookups of an index
Lookups(idx) == [byPhone |-> idx.byPhone, byEmail |-> idx.byEmail, byCode |-> idx.byCode]

\* Every rebuild from the log as it is gives the lookups of the index as it is.
RebuildAgrees(log, file, idx, t) ==
  /\ RebuildFromLog(log, file, t) # {}
  /\ \A r \in RebuildFromLog(log, file, t) : Lookups(r.idx) = Lookups(idx)

PairKey(body) == Sha256Hex(Seed(Get(body, "loan_id"), Get(body, "contract_expiration")))

\* The log holds the entry of `body` and, after it, the entry of a request
\* for the same pair.
FollowedInLog(body) ==
  \E i, j \in 1..Len(logFallback) :
    /\ i < j
    /\ logFallback[i].json = <<body>>
    /\ logFallback[j].json # <<body>>
    /\ HasBoth(logFallback[j].json[1])
    /\ PairKey(logFallback[j].json[1]) = PairKey(body)

\* A request for a pair awaits the CRM while a request made after it has
\* derived the first code of that pair.
OvertakenWhileWaiting ==
  /\ ss.pc = "crm"
  /\ HasBoth(ss.body)
  /\ FollowedInLog(ss.body)
  /\ PairKey(ss.body) \in DOMAIN ReadCodeJson(codeFile)
  /\ \E i \in issued : i.fresh /\ i.code = ReadCodeJson(codeFile)[PairKey(ss.body)]

\* C35: of two concurrent requests deriving a code for the same pair for the
\* first time, the one that writes later can obtain a different code, which
\* replaces the code on file.
C35_FirstDerivationRace ==
  OvertakenWhileWaiting =>
    ENABLED (/\ \E crmOk \in BOOLEAN : StoreStatusCrmReturn(crmOk)
             /\ PairKey(ss.body) \in DOMAIN ReadCodeJson(codeFile')
             /\ ReadCodeJson(codeFile')[PairKey(ss.body)] #
                  ReadCodeJson(codeFile)[PairKey(ss.body)])

\* C35, as the code has it: getOrGenerateTwistCode reads and writes the code
\* store in one turn of the event loop, so of two concurrent requests for a
\* pair the later one finds the code of the earlier one: its continuation
\* leaves the code store as it is and is given the code on file.
C35_LaterRequestFindsTheCode ==
  [][OvertakenWhileWaiting /\ ss'.pc = "idle"
       => /\ codeFile' = codeFile
          /\ \A i \in issued' \ issued :
               /\ ~i.fresh
               /\ i.code = ReadCodeJson(codeFile)[PairKey(ss.body)]
          /\ \A a, b \in issued' :
               (a.loan = b.loan /\ a.exp = b.exp) => a.code = b.code]_vars

\* The request that waited for the CRM has finished after the request that
\* overtook it, and both were given a code for the pair.
C35_Witness ==
  /\ resp.route = "store-status"
  /\ resp.http = 200
  /\ resp.crm # "none"
  /\ FollowedInLog(BodyA("approved"))
  /\ \E a, b \in issued :
       /\ a.fresh /\ ~b.fresh
       /\ a.loan = LoanA /\ b.loan = LoanA /\ a.exp = ExpIso /\ b.exp = ExpIso

\* A step that ends the handling of a request sends a response.
EndsAnswered ==
  [][resp'.route \in {"store-status", "pre-validate"} => resp'.http # 0]_vars

\* C36: every /pre-validate and /store-status request eventually gets a
\* response, given that the OTP service and the CRM answer or fail: no
\* request stays in flight, and the step that ends a request answers it, a
\* step in which a log or code-store write throws included.
C36_EveryRequestAnswered ==
  /\ (ss.pc # "idle") ~> (ss.pc = "idle")
  /\ (pv.pc # "idle") ~> (pv.pc = "idle")
  /\ EndsAnswered

OtpCalls(issuedCalls) == {c \in issuedCalls : c.to = "otp"}

\* C37: the OTP collaborator is called at most once for a /pre-validate
\* request, and only by a request whose card, lookup, email, phone, postal,
\* amount, expiration and code checks have all passed: a request denied by
\* one of those checks has made no OTP call.
C37_OtpCalledOnceAfterChecks ==
  /\ [][OtpCalls(calls') # {} =>
          /\ Cardinality(OtpCalls(calls')) = 1
          /\ pv.pc = "lookup" /\ pv'.pc = "otp"
          /\ CardChecks(pv.sub) = ""
          /\ pv.latest # <<>>
          /\ FailedChecks("pre-validate", pv.sub, pv.latest[1], codeFile) = {}]_vars
  /\ [][pv.pc = "otp" => OtpCalls(calls') = {} /\ pv'.pc \in {"otp", "idle"}]_vars
  /\ [][(resp'.route = "pre-validate" /\ ~resp'.ok /\ Rank(resp'.message) <= 9)
          => pv.pc # "otp"]_vars

\* The OTP call of a request that passed every check has gone out.
C37_Witness ==
  /\ pv.pc = "otp"
  /\ Cardinality(OtpCalls(calls)) = 1
  /\ pv.latest # <<>>
  /\ HasCode(ReadCodeJson(codeFile), PairKey(pv.latest[1]))

\* The step logs a /store-status request for the transaction t.
StoresFor(t) ==
  /\ Len(logFallback') = Len(logFallback) + 1
  /\ GetTok(logFallback'[Len(logFallback')].json[1], "transaction_id") = t

\* The step is a poll for t that was answered.
PollAnswered(t) ==
  /\ resp'.route \in {"client-check-status", "check-status"}
  /\ resp'.tid = t
  /\ resp'.http = 200

\* C38: a poll for a transaction returns the status written last for it:
\* an accepted /store-status for t leaves its status in the map, replacing
\* the status of an earlier one; nothing but a later /store-status for t or a
\* successful /pre-validate for t changes it; and every poll for t returns
\* what the map holds for t.
C38_PollReadsLatestWrite ==
  [][\A t \in Tx :
       /\ StoresFor(t) =>
            statuses'[t] = GetTok(logFallback'[Len(logFallback')].json[1], "status")
       /\ statuses'[t] # statuses[t] =>
            \/ StoresFor(t)
            \/ /\ resp'.route = "pre-validate" /\ resp'.ok /\ resp'.tid = t
               /\ statuses'[t] = "pending"
       /\ (PollAnswered(t) /\ statuses[t] # "") =>
            resp'.status = <<statuses[t]>> /\ statuses'[t] = statuses[t]]_vars

\* Two /store-status requests for t1 were processed, 'approved' first and
\* 'denied' last, and a poll for t1 has returned 'denied'.
C38_Witness ==
  /\ resp.route \in {"client-check-status", "check-status"}
  /\ resp.tid = "t1"
  /\ resp.status = <<"denied">>
  /\ Len(logFallback) = 2
  /\ logFallback[1].json = <<BodyA("approved")>>
  /\ logFallback[2].json = <<BodyA("denied")>>

\* Entries of two different loans end with the suffix looked up.
TwoLoansShareSuffix ==
  \E e, f \in Matching : Get(e.json[1], "loan_id") # Get(f.json[1], "loan_id")

\* C40: when entries of two different loans ending in the same 6 digits are
\* in the log, the loan-suffix lookup made for a validation returns the one
\* logged most recently, whichever loan it belongs to.
C40_LatestLoggedLoanIsUsed ==
  (/\ lookup.by = "lib" \/ (lookup.by = "server" /\ gen = "B")
   /\ TwoLoansShareSuffix)
  => \E e \in Matching : lookup.found = e.json /\ \A f \in Matching : f.n <= e.n

====
